---- MODULE Spec2Model ----
(***************************************************************************)
(* DimTypes: the rational-exponent / unit encoding engine.                 *)
(*                                                                         *)
(* Two encodings headers are modelled:                                     *)
(*   Include/DimTypes/Bits/Encodings.hpp  (PMod = 509, NDims = 7)          *)
(*   Include/Bits/Encodings.hpp           (PMod = 127, NDims = 9);         *)
(* the definitions of the latter carry the suffix 127 where the two        *)
(* headers use the same name.                                              *)
(***************************************************************************)
EXTENDS Integers, Sequences, FiniteSets, TLC

(***************************************************************************)
(* Configuration constants of Include/DimTypes/Bits/Encodings.hpp          *)
(***************************************************************************)
PMod == 509

IPMod == PMod

NDims == 7

PBits == 9

PMask == (2 ^ PBits) - 1

(***************************************************************************)
(* Bounds of the model                                                     *)
(***************************************************************************)
\* Exponent vectors are built from the atoms by at most MaxOps operations
MaxOps == 4

\* Quantity types are built from the declared ones by at most MaxTypeOps operations
MaxTypeOps == 2

\* Normalise is applied to every x in -MaxAbsArg .. MaxAbsArg
MaxAbsArg == 1030

\* DivExp is applied with every n in 0 .. MaxDivArg (the old header's DivExp, whose
\* n is signed, with every n in -MaxDivArg .. MaxDivArg)
MaxDivArg == 520

\* The fields of the sampled exponent vectors are the MaxFld + 1 smallest and the
\* MaxFld + 1 largest residues
MaxFld == 1

\* In the sum of two roots of a base dimension the roots are in 1 .. MaxRoot
MaxRoot == 4

\* MultExp is applied with the multipliers q * P + r, q in -1 .. 1 and
\* r in -MaxMult .. MaxMult
MaxMult == 3

\* Unit selectors of the sampled unit vectors are 0 .. MaxUnit
MaxUnit == 2

\* Only2and3 is applied to 0 .. MaxOnlyArg
MaxOnlyArg == 13

\* The power functions are applied with M in -MaxPow .. MaxPow and
\* N in 0 .. MaxDen (NormaliseFrac also with N in -MaxDen .. -1)
MaxPow == 6

MaxDen == 12

\* RPow is applied with M in -MaxRPow .. MaxRPow and N in 0 .. MaxRDen, P, P + 2
MaxRPow == 3

MaxRDen == 5

(***************************************************************************)
(* C++ integer arithmetic: '/' and '%' on int truncate toward zero.        *)
(* The divisor is positive wherever the code divides.                      *)
(***************************************************************************)
CDiv(a, b) == IF a >= 0 THEN a \div b ELSE -((-a) \div b)

CRem(a, b) == IF a >= 0 THEN a % b ELSE -((-a) % b)

(***************************************************************************)
(* Outcome of a call: a returned value, or a thrown message (which, in a   *)
(* constant expression, rejects the build).                                *)
(***************************************************************************)
Ok(v) == [err |-> "", val |-> v]

Throw(msg) == [err |-> msg, val |-> 0]

(***************************************************************************)
(* GCD                                                                     *)
(***************************************************************************)
\* The outcome of GCDrec: its assert fails when p > q.
RECURSIVE GCDrec(_, _)
GCDrec(p, q) ==
  IF ~(p <= q) THEN Throw("assert(p <= q)")
  ELSE IF p = 0 THEN Ok(q)
  ELSE GCDrec(q % p, p)

\* GCD orders its arguments, so the assert of GCDrec holds in every call.
GCD(m, n) ==
  LET p == IF m >= 0 THEN m ELSE -m
      q == IF n >= 0 THEN n ELSE -n
  IN  IF p <= q THEN GCDrec(p, q).val ELSE GCDrec(q, p).val

(***************************************************************************)
(* Normalise                                                               *)
(***************************************************************************)
Normalise(x) == IF x >= 0 THEN CRem(x, IPMod) ELSE CRem(x, IPMod) + IPMod

(***************************************************************************)
(* InverseModP: extended Euclid.  InvStep is one iteration of the loop     *)
(* body, InvLoop the loop with its LOGIC ERROR (2) check.                  *)
(***************************************************************************)
InvStep(s) ==
  LET q  == CDiv(s.y, s.x)
      r  == CRem(s.y, s.x)
      a1 == s.c - q * s.a
      b1 == s.d - q * s.b
  IN  [x |-> r, y |-> s.x, a |-> a1, b |-> b1, c |-> s.a, d |-> s.b]

RECURSIVE InvLoop(_)
InvLoop(s) ==
  IF s.x = 0
  THEN Ok(Normalise(s.c))
  ELSE LET t == InvStep(s)
       IN  IF ~(0 <= t.x /\ t.x < t.y)
           THEN Throw("DimTypes::Bits::InverseModP: LOGIC ERROR (2)")
           ELSE InvLoop(t)

InverseModP(n) ==
  IF CRem(n, IPMod) = 0
  THEN Throw("DimTypes::Bits::InverseModP: ERROR: UnInvertible arg")
  ELSE LET x == Normalise(n)
       IN  IF ~(0 <= x /\ x < IPMod)
           THEN Throw("DimTypes::Bits::InverseModP: LOGIC ERROR (1)")
           ELSE InvLoop([x |-> x, a |-> 1, b |-> 0, y |-> IPMod, c |-> 0, d |-> 1])

(***************************************************************************)
(* FindMaxHeight.  The state of the search is the pair of loop counters,   *)
(* the set of residues whose taken[] entry is true, and the outcome.       *)
(* FMHStep runs the loop body for the current (height, denom) and then     *)
(* advances the counters as the two for-statements do.                     *)
(***************************************************************************)
FMHInit ==
  [pc |-> "loop", height |-> 2, denom |-> 1, taken |-> {}, result |-> 0, err |-> ""]

\* Variant: the inner for-statement runs while denom <= height.
FMHAdvance_DenomUpToHeight(s, taken1) ==
  IF s.denom + 1 <= s.height
  THEN [s EXCEPT !.denom = s.denom + 1, !.taken = taken1]
  ELSE IF s.height + 1 < IPMod
       THEN [s EXCEPT !.height = s.height + 1, !.denom = 1, !.taken = taken1]
       ELSE [s EXCEPT !.pc = "done", !.result = PMod - 1, !.taken = taken1]

FMHAdvance(s, taken1) ==
  IF s.denom + 1 < s.height
  THEN [s EXCEPT !.denom = s.denom + 1, !.taken = taken1]
  ELSE IF s.height + 1 < IPMod
       THEN [s EXCEPT !.height = s.height + 1, !.denom = 1, !.taken = taken1]
       ELSE [s EXCEPT !.pc = "done", !.result = PMod - 1, !.taken = taken1]

\* Variant: on a clash the current height is returned, not the one before it.
FMHStep_ReturnsClashHeight(s) ==
  LET inv    == InverseModP(s.denom)
      numerP == s.height - s.denom
      numerC == IPMod - numerP
      repP   == (numerP * inv.val) % PMod
      repC   == (numerC * inv.val) % PMod
  IN  IF inv.err # ""
      THEN [s EXCEPT !.pc = "throw", !.err = inv.err]
      ELSE IF GCD(numerP, s.denom) # 1
      THEN FMHAdvance(s, s.taken)
      ELSE IF ~(numerP > 0 /\ numerC > 0)
      THEN [s EXCEPT !.pc = "throw",
                     !.err = "DimTypes::Bits::FindMaxHeight: LOGIC ERROR"]
      ELSE IF repP \in s.taken \/ repC \in s.taken
      THEN [s EXCEPT !.pc = "done", !.result = s.height]
      ELSE FMHAdvance(s, s.taken \cup {repP, repC})

FMHStep(s) ==
  LET inv    == InverseModP(s.denom)
      numerP == s.height - s.denom
      numerC == IPMod - numerP
      repP   == (numerP * inv.val) % PMod
      repC   == (numerC * inv.val) % PMod
  IN  IF inv.err # ""
      THEN [s EXCEPT !.pc = "throw", !.err = inv.err]
      ELSE IF GCD(numerP, s.denom) # 1
      THEN FMHAdvance(s, s.taken)
      ELSE IF ~(numerP > 0 /\ numerC > 0)
      THEN [s EXCEPT !.pc = "throw",
                     !.err = "DimTypes::Bits::FindMaxHeight: LOGIC ERROR"]
      ELSE IF repP \in s.taken \/ repC \in s.taken
      THEN [s EXCEPT !.pc = "done", !.result = s.height - 1]
      ELSE FMHAdvance(s, s.taken \cup {repP, repC})

\* The inner for-statement: the steps of one height.
RECURSIVE FMHRunHeight(_, _)
FMHRunHeight(s, h) ==
  IF s.pc = "loop" /\ s.height = h THEN FMHRunHeight(FMHStep(s), h) ELSE s

\* The outer for-statement, and the outcome of the call.
RECURSIVE FMHRun(_)
FMHRun(s) ==
  IF s.pc = "loop" THEN FMHRun(FMHRunHeight(s, s.height))
  ELSE IF s.pc = "done" THEN Ok(s.result)
  ELSE Throw(s.err)

FindMaxHeight == FMHRun(FMHInit)

MaxHeight == FindMaxHeight.val

(***************************************************************************)
(* GetNumerAndDenom: direct search, height-major, denominator-minor,       *)
(* positive numerator before negative.                                     *)
(***************************************************************************)
\* The inner for-statement over denom; found = FALSE when it runs to its end.
RECURSIVE GetNumerAndDenomInner(_, _, _)
GetNumerAndDenomInner(rep, height, denom) ==
  IF ~(denom < height)
  THEN [found |-> FALSE, res |-> Ok(0)]
  ELSE LET inv    == InverseModP(denom)
           numerP == height - denom
           numerC == IPMod - numerP
       IN  IF inv.err # ""
           THEN [found |-> TRUE, res |-> Throw(inv.err)]
           ELSE IF ~(numerP > 0 /\ numerC > 0)
           THEN [found |-> TRUE,
                 res |-> Throw("DimTypes::Bits::GetNumerAndDenom: LOGIC ERROR")]
           ELSE IF (numerP * inv.val) % PMod = rep
           THEN [found |-> TRUE, res |-> Ok(<<numerP, denom>>)]
           ELSE IF (numerC * inv.val) % PMod = rep
           THEN [found |-> TRUE, res |-> Ok(<<-numerP, denom>>)]
           ELSE GetNumerAndDenomInner(rep, height, denom + 1)

\* The outer for-statement over height, and the final throw.
RECURSIVE GetNumerAndDenomLoop(_, _)
GetNumerAndDenomLoop(rep, height) ==
  IF ~(height < MaxHeight)
  THEN Throw("ERROR: DimTypes::Bits::GetNumerAndDenom: Rep Not Matched")
  ELSE LET r == GetNumerAndDenomInner(rep, height, 1)
       IN  IF r.found THEN r.res ELSE GetNumerAndDenomLoop(rep, height + 1)

\* Variant: the search starts at height 3.
GetNumerAndDenom_StartsAt3(rep) ==
  IF rep = 0 THEN Ok(<<0, 1>>) ELSE GetNumerAndDenomLoop(rep, 3)

GetNumerAndDenom(rep) ==
  IF rep = 0 THEN Ok(<<0, 1>>) ELSE GetNumerAndDenomLoop(rep, 2)

(***************************************************************************)
(* unsigned long: a 64-bit word, as the function from bit position to bit. *)
(* ULong(n) is the word of a non-negative int, ToInt its inverse on words  *)
(* whose set bits all lie below bit 31.                                    *)
(***************************************************************************)
WordBits == 64

BitIdx == 0 .. (WordBits - 1)

ZeroWord == [i \in BitIdx |-> 0]

ULong(n) == [i \in BitIdx |-> IF i < 31 THEN (n \div (2 ^ i)) % 2 ELSE 0]

\* The value of the bits i .. i+7 below bit 31.
ToIntFrom(w, i) ==
  w[i] + 2 * w[i + 1] + 4 * w[i + 2] + 8 * w[i + 3] + 16 * w[i + 4]
       + 32 * w[i + 5] + 64 * w[i + 6] + (IF i + 7 < 31 THEN 128 * w[i + 7] ELSE 0)

ToInt(w) ==
  ToIntFrom(w, 0) + (2 ^ 8) * ToIntFrom(w, 8) + (2 ^ 16) * ToIntFrom(w, 16)
                  + (2 ^ 24) * ToIntFrom(w, 24)

\* w << k and w >> k, for 0 <= k < 64
Shl(w, k) == [i \in BitIdx |-> IF i >= k THEN w[i - k] ELSE 0]

Shr(w, k) == [i \in BitIdx |-> IF i + k < WordBits THEN w[i + k] ELSE 0]

BitAnd(v, w) == [i \in BitIdx |-> v[i] * w[i]]

BitOr(v, w) == [i \in BitIdx |-> IF v[i] = 1 \/ w[i] = 1 THEN 1 ELSE 0]

BitNot(w) == [i \in BitIdx |-> 1 - w[i]]

(***************************************************************************)
(* Bit fields and the monomial operations on exponent vectors              *)
(***************************************************************************)
DimExp(dim) == Shl(ULong(1), dim * PBits)

\* The value of a field is below 2^PBits, so it is returned as an integer.
GetFld(From, dim) == ToInt(BitAnd(Shr(From, dim * PBits), ULong(PMask)))

PutFld(From, dim) == Shl(BitAnd(From, ULong(PMask)), dim * PBits)

RECURSIVE AddExpLoop(_, _, _, _)
AddExpLoop(E, F, res, dim) ==
  IF ~(dim < NDims) THEN res
  ELSE AddExpLoop(E, F,
         BitOr(res, PutFld(ULong((GetFld(E, dim) + GetFld(F, dim)) % PMod), dim)),
         dim + 1)

\* Variant: the short-circuit for E == 0 returns E.
AddExp_ShortCircuitReturnsE(E, F) ==
  IF E = ZeroWord THEN E
  ELSE IF F = ZeroWord THEN E
  ELSE AddExpLoop(E, F, ZeroWord, 0)

AddExp(E, F) ==
  IF E = ZeroWord THEN F
  ELSE IF F = ZeroWord THEN E
  ELSE AddExpLoop(E, F, ZeroWord, 0)

\* x % PMod for the unsigned long x = a - b, where 0 <= a, b < 2^WordBits:
\* a negative difference wraps around to 2^WordBits + (a - b).  The residue
\* of 2^WordBits is taken by squaring that of 2^(WordBits / 4) twice.
ULongSubModP(a, b) ==
  LET q == (2 ^ (WordBits \div 4)) % PMod
      h == (q * q) % PMod
      wrap == (h * h) % PMod
  IN  IF a >= b THEN (a - b) % PMod
      ELSE (wrap + PMod - ((b - a) % PMod)) % PMod

RECURSIVE SubExpLoop(_, _, _, _)
SubExpLoop(E, F, res, dim) ==
  IF ~(dim < NDims) THEN res
  ELSE SubExpLoop(E, F,
         BitOr(res,
               PutFld(ULong(ULongSubModP(PMod + GetFld(E, dim), GetFld(F, dim))), dim)),
         dim + 1)

\* Variant: the operands of the field-wise subtraction are swapped.
SubExp_Swapped(E, F) ==
  IF F = ZeroWord THEN E
  ELSE SubExpLoop(F, E, ZeroWord, 0)

SubExp(E, F) ==
  IF F = ZeroWord THEN E
  ELSE SubExpLoop(E, F, ZeroWord, 0)

RECURSIVE MultExpLoop(_, _, _, _)
MultExpLoop(E, m, res, dim) ==
  IF ~(dim < NDims) THEN res
  ELSE MultExpLoop(E, m,
         BitOr(res, PutFld(ULong((GetFld(E, dim) * Normalise(m)) % PMod), dim)),
         dim + 1)

\* Variant: the products of the fields are not reduced modulo PMod.
MultExp_NoReduce(E, m) ==
  IF m = 1 THEN E
  ELSE [i \in BitIdx |->
          IF i < NDims * PBits
          THEN (((GetFld(E, i \div PBits) * Normalise(m)) % (PMask + 1))
                  \div (2 ^ (i % PBits))) % 2
          ELSE 0]

MultExp(E, m) ==
  IF m = 1 THEN E
  ELSE MultExpLoop(E, m, ZeroWord, 0)

\* InverseModP(int(n)) is evaluated in every iteration; its throw leaves the loop.
RECURSIVE DivExpLoop(_, _, _, _)
DivExpLoop(E, n, res, dim) ==
  IF ~(dim < NDims) THEN Ok(res)
  ELSE LET inv == InverseModP(n)
       IN  IF inv.err # "" THEN Throw(inv.err)
           ELSE DivExpLoop(E, n,
                  BitOr(res, PutFld(ULong((GetFld(E, dim) * inv.val) % PMod), dim)),
                  dim + 1)

DivExp(E, n) ==
  IF n = 0 THEN Throw("DimTypes::Bits::DivExp: LOGIC ERROR")
  ELSE IF n = 1 THEN Ok(E)
  ELSE DivExpLoop(E, n, ZeroWord, 0)

(***************************************************************************)
(* Include/Bits/Encodings.hpp: the PMod = 127, NDims = 9 configuration     *)
(***************************************************************************)
PMod127 == 127

IPMod127 == PMod127

NDims127 == 9

PBits127 == 7

PMask127 == (2 ^ PBits127) - 1

MaxHeight127 == 15

DimExp127(dim) == Shl(ULong(1), dim * PBits127)

GetFld127(from, dim) == ToInt(BitAnd(Shr(from, dim * PBits127), ULong(PMask127)))

PutFld127(from, dim) == Shl(BitAnd(from, ULong(PMask127)), dim * PBits127)

\* Variant: the sum of the two fields is not reduced modulo PMod.
AddFldsModP_NoMod(left, right, dim) ==
  PutFld127(ULong(GetFld127(left, dim) + GetFld127(right, dim)), dim)

AddFldsModP(left, right, dim) ==
  PutFld127(ULong((GetFld127(left, dim) + GetFld127(right, dim)) % PMod127), dim)

SubFldsModP(left, right, dim) ==
  PutFld127(ULong(((PMod127 + GetFld127(left, dim)) - GetFld127(right, dim))
                  % PMod127), dim)

Normalise127(x) ==
  IF x >= 0 THEN CRem(x, IPMod127) ELSE CRem(x, IPMod127) + IPMod127

MultFldsModP(left, m, dim) ==
  PutFld127(ULong((GetFld127(left, dim) * Normalise127(m)) % PMod127), dim)

\* The six-argument overload of InverseModP: no argument is rejected.
\* Variant: the first coefficient is updated from b instead of a.
RECURSIVE InverseModPRec127_WrongCoeff(_, _, _, _, _, _)
InverseModPRec127_WrongCoeff(x, a, b, y, c, d) ==
  IF x = 0
  THEN Normalise127(c)
  ELSE InverseModPRec127_WrongCoeff(CRem(y, x), c - CDiv(y, x) * b,
                                    d - CDiv(y, x) * a, x, a, b)

RECURSIVE InverseModPRec127(_, _, _, _, _, _)
InverseModPRec127(x, a, b, y, c, d) ==
  IF x = 0
  THEN Normalise127(c)
  ELSE InverseModPRec127(CRem(y, x), c - CDiv(y, x) * a, d - CDiv(y, x) * b,
                         x, a, b)

InverseModP127(n) == InverseModPRec127(Normalise127(n), 1, 0, IPMod127, 0, 1)

DivFldsModP(left, n, dim) ==
  PutFld127(ULong((GetFld127(left, dim) * InverseModP127(n)) % PMod127), dim)

RECURSIVE AddExpRec(_, _, _, _)
AddExpRec(E, F, curr, dim) ==
  IF dim >= NDims127 THEN curr
  ELSE AddExpRec(E, F, BitOr(curr, AddFldsModP(E, F, dim)), dim + 1)

AddExp127(E, F) ==
  IF E = ZeroWord THEN F
  ELSE IF F = ZeroWord THEN E
  ELSE AddExpRec(E, F, ZeroWord, 0)

RECURSIVE SubExpRec(_, _, _, _)
SubExpRec(E, F, curr, dim) ==
  IF dim >= NDims127 THEN curr
  ELSE SubExpRec(E, F, BitOr(curr, SubFldsModP(E, F, dim)), dim + 1)

SubExp127(E, F) ==
  IF F = ZeroWord THEN E
  ELSE SubExpRec(E, F, ZeroWord, 0)

RECURSIVE MultExpRec(_, _, _, _)
MultExpRec(E, m, curr, dim) ==
  IF dim >= NDims127 THEN curr
  ELSE MultExpRec(E, m, BitOr(curr, MultFldsModP(E, m, dim)), dim + 1)

\* Variant: the trivial case m == 0 returns E.
MultExp127_ZeroReturnsE(E, m) ==
  IF m = 0 THEN E
  ELSE IF m = 1 THEN E
  ELSE MultExpRec(E, m, ZeroWord, 0)

MultExp127(E, m) ==
  IF m = 0 THEN ZeroWord
  ELSE IF m = 1 THEN E
  ELSE MultExpRec(E, m, ZeroWord, 0)

RECURSIVE DivExpRec(_, _, _, _)
DivExpRec(E, n, curr, dim) ==
  IF dim >= NDims127 THEN curr
  ELSE DivExpRec(E, n, BitOr(curr, DivFldsModP(E, n, dim)), dim + 1)

DivExp127(E, n) ==
  IF n = 1 THEN E
  ELSE DivExpRec(E, n, ZeroWord, 0)

\* Numer / Denom: the search has no bound on height.  NumerRec recurses on denom
\* within a height and on height; NumerRow is its recursion on denom, which ends
\* with the numerator found or, at denom = height - 1, with none.
RECURSIVE NumerRow(_, _, _, _)
NumerRow(rep, height, denom, invDenom) ==
  IF CRem((height - denom) * invDenom, IPMod127) = rep
  THEN [found |-> TRUE, val |-> height - denom]
  ELSE IF CRem((IPMod127 - height + denom) * invDenom, IPMod127) = rep
  THEN [found |-> TRUE, val |-> denom - height]
  ELSE IF denom < height - 1
  THEN NumerRow(rep, height, denom + 1, InverseModP127(denom + 1))
  ELSE [found |-> FALSE, val |-> 0]

RECURSIVE NumerRec(_, _, _, _)
NumerRec(rep, height, denom, invDenom) ==
  LET r == NumerRow(rep, height, denom, invDenom)
  IN  IF r.found THEN r.val ELSE NumerRec(rep, height + 1, 1, 1)

Numer(rep) == IF rep = 0 THEN 0 ELSE NumerRec(rep, 2, 1, 1)

RECURSIVE DenomRow(_, _, _, _)
DenomRow(rep, height, denom, invDenom) ==
  IF \/ CRem((height - denom) * invDenom, IPMod127) = rep
     \/ CRem((IPMod127 - height + denom) * invDenom, IPMod127) = rep
  THEN [found |-> TRUE, val |-> denom]
  ELSE IF denom < height - 1
  THEN DenomRow(rep, height, denom + 1, InverseModP127(denom + 1))
  ELSE [found |-> FALSE, val |-> 0]

RECURSIVE DenomRec(_, _, _, _)
DenomRec(rep, height, denom, invDenom) ==
  LET r == DenomRow(rep, height, denom, invDenom)
  IN  IF r.found THEN r.val ELSE DenomRec(rep, height + 1, 1, 1)

Denom(rep) == IF rep = 0 THEN 1 ELSE DenomRec(rep, 2, 1, 1)

(***************************************************************************)
(* Unit vectors, DimTypes/Bits/Encodings.hpp: unification of the units of  *)
(* two operands, the units check of one exponent vector, and the clean-up  *)
(* of unused units.                                                        *)
(***************************************************************************)
\* Variant: with e == 0 and f != 0 the unit of "e" is used.
Unified_LeftUnit(e, f, u, v) ==
  IF e = 0
  THEN (IF f = 0 THEN Ok(0) ELSE Ok(u))
  ELSE (IF f = 0 THEN Ok(u)
        ELSE IF u = v THEN Ok(u)
        ELSE Throw("ERROR: DimTypes::Bits::UnifyUnits: Unification Failed"))

\* The unified unit of one dimension.
Unified(e, f, u, v) ==
  IF e = 0
  THEN (IF f = 0 THEN Ok(0) ELSE Ok(v))
  ELSE (IF f = 0 THEN Ok(u)
        ELSE IF u = v THEN Ok(u)
        ELSE Throw("ERROR: DimTypes::Bits::UnifyUnits: Unification Failed"))

RECURSIVE UnifyUnitsLoop(_, _, _, _, _, _)
UnifyUnitsLoop(E, F, U, V, res, dim) ==
  IF ~(dim < NDims) THEN Ok(res)
  ELSE LET unified == Unified(GetFld(E, dim), GetFld(F, dim),
                              GetFld(U, dim), GetFld(V, dim))
       IN  IF unified.err # "" THEN Throw(unified.err)
           ELSE UnifyUnitsLoop(E, F, U, V,
                  BitOr(res, PutFld(ULong(unified.val), dim)), dim + 1)

UnifyUnits(E, F, U, V) == UnifyUnitsLoop(E, F, U, V, ZeroWord, 0)

RECURSIVE UnitsOKLoop(_, _, _, _)
UnitsOKLoop(E, U, V, dim) ==
  IF ~(dim < NDims) THEN TRUE
  ELSE IF GetFld(E, dim) # 0 /\ GetFld(U, dim) # GetFld(V, dim) THEN FALSE
  ELSE UnitsOKLoop(E, U, V, dim + 1)

\* Variant: the units must agree in every dimension, whatever E is.
UnitsOK_IgnoresE(E, U, V) ==
  \A dim \in 0 .. (NDims - 1) : GetFld(U, dim) = GetFld(V, dim)

UnitsOK(E, U, V) == UnitsOKLoop(E, U, V, 0)

RECURSIVE CleanUpUnitsLoop(_, _, _, _)
CleanUpUnitsLoop(E, U, res, dim) ==
  IF ~(dim < NDims) THEN res
  ELSE LET u == IF GetFld(E, dim) # 0 THEN GetFld(U, dim) ELSE 0
       IN  CleanUpUnitsLoop(E, U, BitOr(res, PutFld(ULong(u), dim)), dim + 1)

CleanUpUnits(E, U) == CleanUpUnitsLoop(E, U, ZeroWord, 0)

(***************************************************************************)
(* Unit vectors, Bits/Encodings.hpp: the same operations as templates and  *)
(* recursive functions; a failed static_assert is the outcome Throw.       *)
(***************************************************************************)
\* Variant: differing units are rejected whatever the exponents are.
UnifyUnitFlds_StrictUnits(e, f, u, v) ==
  IF ~(u = v)
  THEN Throw("ERROR: Units do not unify")
  ELSE Ok(IF e = 0 THEN v ELSE u)

UnifyUnitFlds(e, f, u, v) ==
  IF ~(e = 0 \/ f = 0 \/ u = v)
  THEN Throw("ERROR: Units do not unify")
  ELSE Ok(IF e = 0 THEN v ELSE u)

RECURSIVE UnifyUnitsRec(_, _, _, _, _, _)
UnifyUnitsRec(E, F, U, V, curr, dim) ==
  IF dim = NDims127 THEN Ok(curr)
  ELSE LET unified == UnifyUnitFlds(GetFld127(E, dim), GetFld127(F, dim),
                                    GetFld127(U, dim), GetFld127(V, dim))
       IN  IF unified.err # "" THEN Throw(unified.err)
           ELSE UnifyUnitsRec(E, F, U, V,
                  BitOr(curr, PutFld127(ULong(unified.val), dim)), dim + 1)

UnifyUnits127(E, F, U, V) == UnifyUnitsRec(E, F, U, V, ZeroWord, 0)

RECURSIVE UnitsOKRec(_, _, _, _)
UnitsOKRec(E, U, V, dim) ==
  IF dim >= NDims127 THEN TRUE
  ELSE IF GetFld127(E, dim) = 0 \/ GetFld127(U, dim) = GetFld127(V, dim)
  THEN UnitsOKRec(E, U, V, dim + 1)
  ELSE FALSE

UnitsOK127(E, U, V) == UnitsOKRec(E, U, V, 0)

\* Variant: the unit is kept whatever the exponent is.
CleanUpFld_KeepsUnit(e, u, dim) == PutFld127(ULong(u), dim)

CleanUpFld(e, u, dim) == PutFld127(ULong(IF e = 0 THEN 0 ELSE u), dim)

RECURSIVE CleanUpUnitsRec(_, _, _, _)
CleanUpUnitsRec(E, U, curr, dim) ==
  IF dim >= NDims127 THEN curr
  ELSE CleanUpUnitsRec(E, U,
         BitOr(curr, CleanUpFld(GetFld127(E, dim), GetFld127(U, dim), dim)),
         dim + 1)

CleanUpUnits127(E, U) == CleanUpUnitsRec(E, U, ZeroWord, 0)

(***************************************************************************)
(* DimTypes.hpp: the dimensioned quantity DimQ<E, U, RepT, MaxDims> is the *)
(* record [E, U, val].  E and U are template arguments, so an operator     *)
(* whose static_assert fails, whose return type cannot be computed, or for *)
(* which no overload matches, is rejected by the compiler: the outcome     *)
(* Throw.  The functions of En are those of DimTypes/Bits/Encodings.hpp.   *)
(* The magnitude m_val is an exact fraction <<n, d>> with d > 0.           *)
(***************************************************************************)
RepT(n, d) ==
  LET g == GCD(n, d)
      s == IF d < 0 THEN -1 ELSE 1
  IN  IF g = 0 THEN <<n, d>> ELSE <<s * CDiv(n, g), s * CDiv(d, g)>>

RepAdd(a, b) == RepT(a[1] * b[2] + b[1] * a[2], a[2] * b[2])

RepSub(a, b) == RepT(a[1] * b[2] - b[1] * a[2], a[2] * b[2])

RepMul(a, b) == RepT(a[1] * b[1], a[2] * b[2])

RepDiv(a, b) == RepT(a[1] * b[2], a[2] * b[1])

RepLess(a, b) == a[1] * b[2] < b[1] * a[2]

DimQ(E, U, val) == [E |-> E, U |-> U, val |-> val]

\* m_val is private, and DimQ<F,V,RepT,MaxDims> is another class than
\* DimQ<E,U,RepT,MaxDims> unless F = E and V = U: an operator that reads
\* a_right.m_val is instantiated only for a right operand of the same type.
SameDimQ(l, r) == l.E = r.E /\ l.U = r.U

\* Variant: the dimensions of the two operands are not compared.
DimQAdd_NoDimCheck(l, r) ==
  IF ~UnitsOK(l.E, l.U, r.U) THEN Throw("ERROR: +: Units do not unify")
  ELSE IF ~(l.U = r.U) THEN Throw("m_val is private within this context")
  ELSE Ok(DimQ(l.E, l.U, RepAdd(l.val, r.val)))

DimQAdd(l, r) ==
  IF ~(l.E = r.E) THEN Throw("ERROR: +: Different Dims")
  ELSE IF ~UnitsOK(l.E, l.U, r.U) THEN Throw("ERROR: +: Units do not unify")
  ELSE IF ~SameDimQ(l, r) THEN Throw("m_val is private within this context")
  ELSE Ok(DimQ(l.E, l.U, RepAdd(l.val, r.val)))

DimQAddAssign(l, r) ==
  IF ~(l.E = r.E) THEN Throw("ERROR: +=: Different Dims")
  ELSE IF ~UnitsOK(l.E, l.U, r.U) THEN Throw("ERROR: +=: Units do not unify")
  ELSE IF ~SameDimQ(l, r) THEN Throw("m_val is private within this context")
  ELSE Ok([l EXCEPT !.val = RepAdd(l.val, r.val)])

DimQSub(l, r) ==
  IF ~(l.E = r.E) THEN Throw("ERROR: -: Different Dims")
  ELSE IF ~UnitsOK(l.E, l.U, r.U) THEN Throw("ERROR: -: Units do not unify")
  ELSE IF ~SameDimQ(l, r) THEN Throw("m_val is private within this context")
  ELSE Ok(DimQ(l.E, l.U, RepSub(l.val, r.val)))

DimQSubAssign(l, r) ==
  IF ~(l.E = r.E) THEN Throw("ERROR: -=: Different Dims")
  ELSE IF ~UnitsOK(l.E, l.U, r.U) THEN Throw("ERROR: -=: Units do not unify")
  ELSE IF ~SameDimQ(l, r) THEN Throw("m_val is private within this context")
  ELSE Ok([l EXCEPT !.val = RepSub(l.val, r.val)])

\* The value of CEMaths::ATan2 is left uninterpreted.
DimQATan2(y, x) ==
  IF ~(y.E = x.E) THEN Throw("ERROR: ATan2: Different Dims")
  ELSE IF ~UnitsOK(y.E, y.U, x.U) THEN Throw("ERROR: ATan2: Units do not unify")
  ELSE IF ~SameDimQ(y, x) THEN Throw("m_val is private within this context")
  ELSE Ok([fn |-> "ATan2", y |-> y.val, x |-> x.val])

\* DIMQ_CMP(Op): the parameter type is DimQ<E, V, RepT, MaxDims>, so an
\* operand of other dimensions matches no overload.
DimQCmp(Op, l, r) ==
  IF ~(l.E = r.E) THEN Throw("no match for operator")
  ELSE IF ~UnitsOK(l.E, l.U, r.U) THEN Throw("ERROR: Units do not unify")
  ELSE IF ~SameDimQ(l, r) THEN Throw("m_val is private within this context")
  ELSE Ok(CASE Op = "==" -> l.val = r.val
            [] Op = "!=" -> l.val # r.val
            [] Op = ">"  -> RepLess(r.val, l.val)
            [] Op = ">=" -> ~RepLess(l.val, r.val)
            [] Op = "<"  -> RepLess(l.val, r.val)
            [] Op = "<=" -> ~RepLess(r.val, l.val))

\* Variant: the units of the product are not cleaned up.
DimQMul_NoCleanUp(l, r) ==
  LET unified == UnifyUnits(l.E, r.E, l.U, r.U)
  IN  IF unified.err # "" THEN Throw(unified.err)
      ELSE Ok(DimQ(AddExp(l.E, r.E), unified.val, RepMul(l.val, r.val)))

DimQMul(l, r) ==
  LET unified == UnifyUnits(l.E, r.E, l.U, r.U)
  IN  IF unified.err # "" THEN Throw(unified.err)
      ELSE Ok(DimQ(AddExp(l.E, r.E),
                   CleanUpUnits(AddExp(l.E, r.E), unified.val),
                   RepMul(l.val, r.val)))

DimQDiv(l, r) ==
  LET unified == UnifyUnits(l.E, r.E, l.U, r.U)
  IN  IF unified.err # "" THEN Throw(unified.err)
      ELSE Ok(DimQ(SubExp(l.E, r.E),
                   CleanUpUnits(SubExp(l.E, r.E), unified.val),
                   RepDiv(l.val, r.val)))

\* operator/ (RepT a_left, DimQ a_right)
DimQRecip(a_left, a_right) ==
  Ok(DimQ(SubExp(ZeroWord, a_right.E), a_right.U, RepDiv(a_left, a_right.val)))

(***************************************************************************)
(* Only2and3, DimTypes/Bits/Encodings.hpp (a_n is unsigned).               *)
(***************************************************************************)
RECURSIVE Only2and3(_)
Only2and3(a_n) ==
  IF a_n = 0 THEN TRUE
  ELSE IF a_n % 2 = 0 THEN Only2and3(a_n \div 2)
  ELSE IF a_n % 3 = 0 THEN Only2and3(a_n \div 3)
  ELSE FALSE

(***************************************************************************)
(* Power functions.  A value of type T is kept exactly as the power of the *)
(* argument x it equals: [exp, calls], where exp is the exponent of x as a *)
(* fraction and calls lists the library functions (sqrt, cbrt, pow) that   *)
(* were applied to x on the way.                                           *)
(***************************************************************************)
PwX == [exp |-> <<1, 1>>, calls |-> <<>>]

\* T(1.0)
PwOne == [exp |-> <<0, 1>>, calls |-> <<>>]

PwMul(a, b) ==
  [exp |-> RepAdd(a.exp, b.exp),
   calls |-> IF a.calls = b.calls THEN a.calls ELSE a.calls \o b.calls]

PwDiv(a, b) ==
  [exp |-> RepSub(a.exp, b.exp),
   calls |-> IF a.calls = b.calls THEN a.calls ELSE a.calls \o b.calls]

PwSqrt(a) == [exp |-> RepMul(a.exp, <<1, 2>>), calls |-> Append(a.calls, "sqrt")]

PwCbrt(a) == [exp |-> RepMul(a.exp, <<1, 3>>), calls |-> Append(a.calls, "cbrt")]

\* std::pow(a, T(M) / T(N))
PwPow(a, M, N) ==
  [exp |-> RepMul(a.exp, RepT(M, N)), calls |-> Append(a.calls, "pow")]

(***************************************************************************)
(* DimTypes/Bits/Encodings.hpp: NormaliseFrac, IntPower, FracPower23 and   *)
(* FracPower.  A failed assert or static_assert, and the call of the       *)
(* undeclared FracPow23, are the outcome Throw.                            *)
(***************************************************************************)
\* Variant: the sign of a negative denominator is not moved to the numerator.
NormaliseFrac_KeepsSign(m, n) ==
  IF n = 0 THEN Throw("assert(n != 0)")
  ELSE LET gcd == GCD(m, n)
           m1  == CDiv(m, gcd)
           n1  == CDiv(IF n > 0 THEN n ELSE -n, gcd)
       IN  Ok(<<m1, n1>>)

NormaliseFrac(m, n) ==
  IF n = 0 THEN Throw("assert(n != 0)")
  ELSE LET gcd == GCD(m, n)
           m1  == CDiv(IF n > 0 THEN m ELSE -m, gcd)
           n1  == CDiv(IF n > 0 THEN n ELSE -n, gcd)
       IN  Ok(<<m1, n1>>)

RECURSIVE IntPower(_, _)
IntPower(M, a_x) ==
  IF M < 0 THEN IntPower(-M, a_x)
  ELSE IF M = 0 THEN PwOne
  ELSE IF M = 1 THEN a_x
  ELSE LET halfPow  == IntPower(CDiv(M, 2), a_x)
           halfPow2 == PwMul(halfPow, halfPow)
       IN  IF CRem(M, 2) = 1 THEN PwMul(halfPow2, a_x) ELSE halfPow2

FracPower23(M, N, a_x) ==
  IF ~(M # 0 /\ N # 0) THEN Throw("FracPower23: Invalid Frac")
  ELSE IF N = 1 THEN Ok(IntPower(M, a_x))
  ELSE IF N % 2 = 0 THEN Throw("FracPow23 was not declared")
  ELSE IF ~(N % 3 = 0) THEN Throw("FracPower23: N != Mults(2,3)")
  ELSE Throw("FracPow23 was not declared")

\* T is a real type: IsComplex<T> is false.
FracPower(M, N, a_x) ==
  LET nFrac == NormaliseFrac(M, N)
  IN  IF nFrac.err # "" THEN Throw(nFrac.err)
      ELSE LET M1 == nFrac.val[1]
               N1 == nFrac.val[2]
           IN  IF M1 = 0 THEN Ok(PwOne)
               ELSE IF N1 = 1 THEN Ok(IntPower(M1, a_x))
               ELSE IF Only2and3(N1) THEN FracPower23(M1, N1, a_x)
               ELSE Ok(PwPow(a_x, M1, N1))

(***************************************************************************)
(* DimTypes/Bits/FracPower.hpp: the same functions as class templates; the *)
(* names that clash with the ones above carry the suffix FP.               *)
(***************************************************************************)
NormaliseNumer(m, n) ==
  IF n > 0 THEN CDiv(m, GCD(m, n)) ELSE -CDiv(m, GCD(m, n))

NormaliseDenom(m, n) ==
  LET an == IF n >= 0 THEN n ELSE -n
  IN  CDiv(an, GCD(m, n))

\* M >= 0 (static_assert)
RECURSIVE NatPower(_, _)
NatPower(M, base) ==
  IF M = 0 THEN [PwOne EXCEPT !.calls = base.calls]
  ELSE IF M = 1 THEN base
  ELSE LET halfPow == NatPower(CDiv(M, 2), base)
       IN  IF M % 2 = 0 THEN PwMul(halfPow, halfPow)
           ELSE PwMul(PwMul(base, halfPow), halfPow)

IntPowerFP(M, base) ==
  IF M >= 0 THEN NatPower(M, base)
  ELSE PwDiv(PwOne, NatPower(-M, base))

\* N >= 1
RECURSIVE SqRtPower(_, _, _)
SqRtPower(M, N, base) ==
  IF N = 1 THEN IntPowerFP(M, base)
  ELSE IF N % 2 = 0 THEN SqRtPower(M, N \div 2, PwSqrt(base))
  ELSE PwPow(base, M, N)

\* N >= 1, T is float, double or long double
RECURSIVE CbRtPower(_, _, _)
CbRtPower(M, N, base) ==
  IF N % 3 = 0 THEN CbRtPower(M, N \div 3, PwCbrt(base))
  ELSE SqRtPower(M, N, base)

FracPowerFP(M, N, base) ==
  IF N = 0 THEN Throw("Zero denom in fractional degree")
  ELSE Ok(CbRtPower(NormaliseNumer(M, N), NormaliseDenom(M, N), base))

(***************************************************************************)
(* SetUnit and MkUnit, DimTypes/Bits/Encodings.hpp.                        *)
(***************************************************************************)
\* Variant: the old bits at "dim" are not cleared.
SetUnit_NoClear(U, dim, unit) ==
  BitOr(U, Shl(BitAnd(ULong(unit), ULong(PMask)), dim * PBits))

SetUnit(U, dim, unit) ==
  BitOr(BitAnd(U, BitNot(Shl(ULong(PMask), dim * PBits))),
        Shl(BitAnd(ULong(unit), ULong(PMask)), dim * PBits))

MkUnit(dim, unit) == SetUnit(ZeroWord, dim, unit)

(***************************************************************************)
(* DimTypes.hpp: the powers of a quantity, and Macros.h: the conversions   *)
(* between the declared units of a dimension.  The magnitudes are computed *)
(* by the calls En::IntPow<M> and En::FracPow<M,N>: the integer and the    *)
(* fractional power of DimTypes/Bits/Encodings.hpp, IntPower and FracPower.*)
(***************************************************************************)
\* The fraction r to the integer power k (r # 0 when k < 0).
RECURSIVE RepPow(_, _)
RepPow(r, k) ==
  IF k = 0 THEN <<1, 1>>
  ELSE IF k < 0 THEN RepDiv(<<1, 1>>, RepPow(r, -k))
  ELSE RepMul(r, RepPow(r, k - 1))

\* The power function pw (a power of its argument x) applied to the fraction
\* base: exact when pw is an integer power, kept as [base, pw] otherwise.
ApplyPw(base, pw) ==
  IF pw.calls = <<>> /\ pw.exp[2] = 1 THEN RepPow(base, pw.exp[1])
  ELSE [base |-> base, pw |-> pw]

\* a_m * pw(base)
ScaledBy(a_m, base, pw) ==
  IF pw.calls = <<>> /\ pw.exp[2] = 1 THEN RepMul(a_m, RepPow(base, pw.exp[1]))
  ELSE [m |-> a_m, base |-> base, pw |-> pw]

DimQIPow(M, q) ==
  LET e == MultExp(q.E, M)
  IN  Ok(DimQ(e, CleanUpUnits(e, q.U), ApplyPw(q.val, IntPower(M, PwX))))

DimQSqr(q) == DimQIPow(2, q)

DimQCube(q) == DimQIPow(3, q)

DimQRPow(M, N, q) ==
  LET e  == DivExp(MultExp(q.E, M), N)
      pw == FracPower(M, N, PwX)
  IN  IF e.err # "" THEN Throw(e.err)
      ELSE IF ~(N > 0 /\ CRem(N, IPMod) # 0) THEN Throw("RPow: Invalid Denom")
      ELSE IF pw.err # "" THEN Throw(pw.err)
      ELSE Ok(DimQ(e.val, CleanUpUnits(e.val, q.U), ApplyPw(q.val, pw.val)))

\* SqRt and CbRt declare the type DimQ<DivExp(E,N), U> and return RPow<1,N>():
\* a result of another type does not convert.
DimQRoot(N, q) ==
  LET r == DimQRPow(1, N, q)
  IN  IF r.err # "" THEN r
      ELSE IF r.val.E = DivExp(q.E, N).val /\ r.val.U = q.U THEN r
      ELSE Throw("could not convert the RPow result to the return type")

DimQSqRt(q) == DimQRoot(2, q)

DimQCbRt(q) == DimQRoot(3, q)

\* UnitScale<Dim, Unit>: 1.0 for the fundamental unit 0, the declared value
\* for the units 1 .. MaxUnit, NAN (the fraction 0/0) for an undeclared unit.
UnitScale(Dim, Unit) ==
  IF Unit = 0 THEN <<1, 1>>
  ELSE IF Unit <= MaxUnit THEN RepT(Unit + 1, Dim + 1)
  ELSE <<0, 0>>

\* To_<Dim>_<Unit>: MK_CONV_FUNC_NAME(DimName, UnitName)
To_Dim_Unit(Dim, NewUnit, a_dimq) ==
  LET OldUnit   == GetFld(a_dimq.U, Dim)
      ExpNumDen == GetNumerAndDenom(GetFld(a_dimq.E, Dim))
      OldScale  == UnitScale(Dim, OldUnit)
      NewScale  == UnitScale(Dim, NewUnit)
      pw        == FracPower(ExpNumDen.val[1], ExpNumDen.val[2], PwX)
  IN  IF ExpNumDen.err # "" THEN Throw(ExpNumDen.err)
      ELSE IF pw.err # "" THEN Throw(pw.err)
      ELSE Ok(DimQ(a_dimq.E, SetUnit(a_dimq.U, Dim, NewUnit),
                ScaledBy(a_dimq.val, RepDiv(OldScale, NewScale), pw.val)))

\* To_<Dim>: MK_CONV_FUNC_NAME0, the conversion to the fundamental unit
To_Dim(Dim, a_dimq) ==
  LET OldUnit   == GetFld(a_dimq.U, Dim)
      ExpNumDen == GetNumerAndDenom(GetFld(a_dimq.E, Dim))
      OldScale  == UnitScale(Dim, OldUnit)
      pw        == FracPower(ExpNumDen.val[1], ExpNumDen.val[2], PwX)
  IN  IF ExpNumDen.err # "" THEN Throw(ExpNumDen.err)
      ELSE IF pw.err # "" THEN Throw(pw.err)
      ELSE Ok(DimQ(a_dimq.E, SetUnit(a_dimq.U, Dim, 0),
                ScaledBy(a_dimq.val, RepDiv(OldScale, UnitScale(Dim, 0)), pw.val)))

(***************************************************************************)
(* Inputs: exponent vectors given by their fields, packed bit by bit.      *)
(***************************************************************************)
WordOf(flds, bits) ==
  [i \in BitIdx |-> IF i < Len(flds) * bits
                    THEN (flds[(i \div bits) + 1] \div (2 ^ (i % bits))) % 2
                    ELSE 0]

FldVals(P) == (0 .. MaxFld) \cup ((P - 1 - MaxFld) .. (P - 1))

\* One field set, or all fields equal.
FldSamples(N, P) ==
  {[k \in 1 .. N |-> IF k = d + 1 THEN v ELSE 0] : d \in 0 .. (N - 1), v \in FldVals(P)}
  \cup {[k \in 1 .. N |-> v] : v \in FldVals(P)}

ExpSamples == {WordOf(f, PBits) : f \in FldSamples(NDims, PMod)}

ExpSamples127 == {WordOf(f, PBits127) : f \in FldSamples(NDims127, PMod127)}

\* Multipliers around the multiples of P.
MultArgs(P) == {q * P + r : q \in -1 .. 1, r \in -MaxMult .. MaxMult}

\* Exponent vectors over the first and the last dimension: each is absent
\* or present.
UnitExpSamples(N, P, bits) ==
  {WordOf([k \in 1 .. N |-> IF k = 1 THEN a ELSE IF k = N THEN b ELSE 0], bits) :
     a \in {0, 1}, b \in {0, P - 1}}

AllOnes == [i \in BitIdx |-> 1]

\* Unit vectors over the same two dimensions, and the word of all ones.
UnitSamples(N, bits) ==
  {WordOf([k \in 1 .. N |-> IF k = 1 THEN a ELSE IF k = N THEN b ELSE 0], bits) :
     a \in 0 .. MaxUnit, b \in 0 .. MaxUnit}
  \cup {AllOnes}

\* Quantities: dimensions from UnitExpSamples, units over the same two
\* dimensions, magnitudes from vals.
DimQUnits ==
  {WordOf([k \in 1 .. NDims |-> IF k = 1 THEN a ELSE IF k = NDims THEN b ELSE 0],
          PBits) : a \in 0 .. MaxUnit, b \in 0 .. 1}

DimQSamples(vals) ==
  {DimQ(E, U, v) : E \in UnitExpSamples(NDims, PMod, PBits), U \in DimQUnits,
                   v \in vals}

LeftVals == {RepT(1, 2), RepT(3, 1)}

RightVals == {RepT(3, 1)}

CmpOps == {"==", "!=", ">", ">=", "<", "<="}

\* Quantities whose exponents are the rationals a (first dimension) and b
\* (last dimension), in the units MaxUnit and 1.
RPowExps == {<<1, 1>>, <<3, 1>>, <<-2, 1>>, <<19, 1>>, <<3, 2>>}

RPowSamples ==
  {DimQ(WordOf([k \in 1 .. NDims |->
                  IF k = 1 THEN (Normalise(a[1]) * InverseModP(a[2]).val) % PMod
                  ELSE IF k = NDims THEN Normalise(b) ELSE 0], PBits),
        BitOr(MkUnit(0, MaxUnit), IF b = 0 THEN ZeroWord ELSE MkUnit(NDims - 1, 1)),
        <<2, 1>>) : a \in RPowExps, b \in {0, -2}}

RPowDenoms == (0 .. MaxRDen) \cup {PMod, PMod + 2}

\* Quantities to convert: the exponents a (first dimension) and b (last
\* dimension), any declared unit in the first and the units 0, 1 in the last.
ConvExps == {<<0, 1>>, <<1, 1>>, <<-2, 1>>, <<3, 2>>, <<23, 1>>}

ConvSamples ==
  {DimQ(WordOf([k \in 1 .. NDims |->
                  IF k = 1 THEN (Normalise(a[1]) * InverseModP(a[2]).val) % PMod
                  ELSE IF k = NDims THEN Normalise(b) ELSE 0], PBits),
        BitOr(MkUnit(0, u0), MkUnit(NDims - 1, u1)),
        <<3, 1>>) : a \in ConvExps, b \in {0, -2}, u0 \in 0 .. MaxUnit, u1 \in 0 .. 1}

ConvDims == {0, 1, NDims - 1}

\* Values packed into a field: within the mask, the mask itself, and above it.
PackVals == {0, 1, MaxUnit, PMask, PMask + 1, PMask + 1 + MaxUnit, (2 ^ 20) + 5}

DivSamples == {ZeroWord, DimExp(0), DimExp(NDims - 1)}

DivSamples127 == {ZeroWord, DimExp127(0), DimExp127(NDims127 - 1)}

(***************************************************************************)
(* The program as a state machine.  MaxHeight is a namespace-scope         *)
(* constexpr: the search runs first (fmh), and the encoding operations are *)
(* applied once it has finished.  op / args / out record the last          *)
(* operation applied, its arguments and its outcome.                       *)
(***************************************************************************)
VARIABLES fmh, op, args, out

vars == <<fmh, op, args, out>>

Init ==
  /\ fmh = FMHInit
  /\ op = "none"
  /\ args = <<>>
  /\ out = Ok(0)

FindMaxHeightStep ==
  /\ fmh.pc = "loop"
  /\ fmh' = FMHStep(fmh)
  /\ UNCHANGED <<op, args, out>>

\* An operation is applied when the search has finished and no call is pending.
Ready == fmh.pc = "done" /\ op = "none"

\* The pending call returns to its caller.
Return ==
  /\ op # "none"
  /\ op' = "none"
  /\ args' = <<>>
  /\ out' = Ok(0)
  /\ UNCHANGED fmh

CallNormalise ==
  /\ Ready
  /\ \E x \in -MaxAbsArg .. MaxAbsArg :
       /\ op' = "Normalise"
       /\ args' = <<x>>
       /\ out' = Ok(Normalise(x))
  /\ UNCHANGED fmh

CallInverseModP ==
  /\ Ready
  /\ \E n \in -MaxAbsArg .. MaxAbsArg :
       /\ op' = "InverseModP"
       /\ args' = <<n>>
       /\ out' = InverseModP(n)
  /\ UNCHANGED fmh

CallGetNumerAndDenom ==
  /\ Ready
  /\ \E rep \in 0 .. PMask :
       /\ op' = "GetNumerAndDenom"
       /\ args' = <<rep>>
       /\ out' = GetNumerAndDenom(rep)
  /\ UNCHANGED fmh

CallInverseModP127 ==
  /\ Ready
  /\ \E n \in -MaxAbsArg .. MaxAbsArg :
       /\ op' = "InverseModP127"
       /\ args' = <<n>>
       /\ out' = Ok(InverseModP127(n))
  /\ UNCHANGED fmh

CallNormalise127 ==
  /\ Ready
  /\ \E x \in -MaxAbsArg .. MaxAbsArg :
       /\ op' = "Normalise127"
       /\ args' = <<x>>
       /\ out' = Ok(Normalise127(x))
  /\ UNCHANGED fmh

\* Numer and Denom are applied to the same field value, a residue below PMod.
CallNumerDenom ==
  /\ Ready
  /\ \E rep \in 0 .. (PMod127 - 1) :
       /\ op' = "NumerDenom"
       /\ args' = <<rep>>
       /\ out' = Ok(<<Numer(rep), Denom(rep)>>)
  /\ UNCHANGED fmh

CallAddExp ==
  /\ Ready
  /\ \E E \in ExpSamples, F \in ExpSamples :
       /\ op' = "AddExp"
       /\ args' = <<E, F>>
       /\ out' = Ok(AddExp(E, F))
  /\ UNCHANGED fmh

CallSubExp ==
  /\ Ready
  /\ \E E \in ExpSamples, F \in ExpSamples :
       /\ op' = "SubExp"
       /\ args' = <<E, F>>
       /\ out' = Ok(SubExp(E, F))
  /\ UNCHANGED fmh

CallAddExp127 ==
  /\ Ready
  /\ \E E \in ExpSamples127, F \in ExpSamples127 :
       /\ op' = "AddExp127"
       /\ args' = <<E, F>>
       /\ out' = Ok(AddExp127(E, F))
  /\ UNCHANGED fmh

CallSubExp127 ==
  /\ Ready
  /\ \E E \in ExpSamples127, F \in ExpSamples127 :
       /\ op' = "SubExp127"
       /\ args' = <<E, F>>
       /\ out' = Ok(SubExp127(E, F))
  /\ UNCHANGED fmh

CallDivExp ==
  /\ Ready
  /\ \E E \in DivSamples, n \in 0 .. MaxDivArg :
       /\ op' = "DivExp"
       /\ args' = <<E, n>>
       /\ out' = DivExp(E, n)
  /\ UNCHANGED fmh

CallDivExp127 ==
  /\ Ready
  /\ \E E \in DivSamples127, n \in -MaxDivArg .. MaxDivArg :
       /\ op' = "DivExp127"
       /\ args' = <<E, n>>
       /\ out' = Ok(DivExp127(E, n))
  /\ UNCHANGED fmh

\* The n1-th and the n2-th root of a base dimension are multiplied, and the
\* exponent of that dimension is decoded (old header).
CallAddRoots127 ==
  /\ Ready
  /\ \E dim \in 0 .. (NDims127 - 1), n1 \in 1 .. MaxRoot, n2 \in 1 .. MaxRoot :
       LET E   == DivExp127(DimExp127(dim), n1)
           F   == DivExp127(DimExp127(dim), n2)
           fld == GetFld127(AddExp127(E, F), dim)
       IN  /\ op' = "AddRoots127"
           /\ args' = <<dim, n1, n2>>
           /\ out' = Ok(<<Numer(fld), Denom(fld)>>)
  /\ UNCHANGED fmh

CallMultExp ==
  /\ Ready
  /\ \E E \in ExpSamples, m \in MultArgs(PMod) :
       /\ op' = "MultExp"
       /\ args' = <<E, m>>
       /\ out' = Ok(MultExp(E, m))
  /\ UNCHANGED fmh

CallMultExp127 ==
  /\ Ready
  /\ \E E \in ExpSamples127, m \in MultArgs(PMod127) :
       /\ op' = "MultExp127"
       /\ args' = <<E, m>>
       /\ out' = Ok(MultExp127(E, m))
  /\ UNCHANGED fmh

CallUnifyUnits ==
  /\ Ready
  /\ \E E \in UnitExpSamples(NDims, PMod, PBits),
        F \in UnitExpSamples(NDims, PMod, PBits),
        U \in UnitSamples(NDims, PBits), V \in UnitSamples(NDims, PBits) :
       /\ op' = "UnifyUnits"
       /\ args' = <<E, F, U, V>>
       /\ out' = UnifyUnits(E, F, U, V)
  /\ UNCHANGED fmh

CallUnifyUnits127 ==
  /\ Ready
  /\ \E E \in UnitExpSamples(NDims127, PMod127, PBits127),
        F \in UnitExpSamples(NDims127, PMod127, PBits127),
        U \in UnitSamples(NDims127, PBits127),
        V \in UnitSamples(NDims127, PBits127) :
       /\ op' = "UnifyUnits127"
       /\ args' = <<E, F, U, V>>
       /\ out' = UnifyUnits127(E, F, U, V)
  /\ UNCHANGED fmh

CallUnitsOK ==
  /\ Ready
  /\ \E E \in UnitExpSamples(NDims, PMod, PBits),
        U \in UnitSamples(NDims, PBits), V \in UnitSamples(NDims, PBits) :
       /\ op' = "UnitsOK"
       /\ args' = <<E, U, V>>
       /\ out' = Ok(UnitsOK(E, U, V))
  /\ UNCHANGED fmh

CallUnitsOK127 ==
  /\ Ready
  /\ \E E \in UnitExpSamples(NDims127, PMod127, PBits127),
        U \in UnitSamples(NDims127, PBits127),
        V \in UnitSamples(NDims127, PBits127) :
       /\ op' = "UnitsOK127"
       /\ args' = <<E, U, V>>
       /\ out' = Ok(UnitsOK127(E, U, V))
  /\ UNCHANGED fmh

CallCleanUpUnits ==
  /\ Ready
  /\ \E E \in UnitExpSamples(NDims, PMod, PBits), U \in UnitSamples(NDims, PBits) :
       /\ op' = "CleanUpUnits"
       /\ args' = <<E, U>>
       /\ out' = Ok(CleanUpUnits(E, U))
  /\ UNCHANGED fmh

CallCleanUpUnits127 ==
  /\ Ready
  /\ \E E \in UnitExpSamples(NDims127, PMod127, PBits127),
        U \in UnitSamples(NDims127, PBits127) :
       /\ op' = "CleanUpUnits127"
       /\ args' = <<E, U>>
       /\ out' = Ok(CleanUpUnits127(E, U))
  /\ UNCHANGED fmh

CallDimQAdd ==
  /\ Ready
  /\ \E l \in DimQSamples(LeftVals), r \in DimQSamples(RightVals) :
       /\ op' = "DimQAdd"
       /\ args' = <<l, r>>
       /\ out' = DimQAdd(l, r)
  /\ UNCHANGED fmh

CallDimQAddAssign ==
  /\ Ready
  /\ \E l \in DimQSamples(LeftVals), r \in DimQSamples(RightVals) :
       /\ op' = "DimQAddAssign"
       /\ args' = <<l, r>>
       /\ out' = DimQAddAssign(l, r)
  /\ UNCHANGED fmh

CallDimQSub ==
  /\ Ready
  /\ \E l \in DimQSamples(LeftVals), r \in DimQSamples(RightVals) :
       /\ op' = "DimQSub"
       /\ args' = <<l, r>>
       /\ out' = DimQSub(l, r)
  /\ UNCHANGED fmh

CallDimQSubAssign ==
  /\ Ready
  /\ \E l \in DimQSamples(LeftVals), r \in DimQSamples(RightVals) :
       /\ op' = "DimQSubAssign"
       /\ args' = <<l, r>>
       /\ out' = DimQSubAssign(l, r)
  /\ UNCHANGED fmh

CallDimQATan2 ==
  /\ Ready
  /\ \E l \in DimQSamples(LeftVals), r \in DimQSamples(RightVals) :
       /\ op' = "DimQATan2"
       /\ args' = <<l, r>>
       /\ out' = DimQATan2(l, r)
  /\ UNCHANGED fmh

CallDimQCmp ==
  /\ Ready
  /\ \E Op \in CmpOps, l \in DimQSamples(LeftVals), r \in DimQSamples(RightVals) :
       /\ op' = "DimQCmp"
       /\ args' = <<l, r, Op>>
       /\ out' = DimQCmp(Op, l, r)
  /\ UNCHANGED fmh

CallDimQMul ==
  /\ Ready
  /\ \E l \in DimQSamples(RightVals), r \in DimQSamples(RightVals) :
       /\ op' = "DimQMul"
       /\ args' = <<l, r>>
       /\ out' = DimQMul(l, r)
  /\ UNCHANGED fmh

CallDimQDiv ==
  /\ Ready
  /\ \E l \in DimQSamples(RightVals), r \in DimQSamples(RightVals) :
       /\ op' = "DimQDiv"
       /\ args' = <<l, r>>
       /\ out' = DimQDiv(l, r)
  /\ UNCHANGED fmh

\* auto z = 1.0 / y;  auto dl = y * z;
CallReciprocalProduct ==
  /\ Ready
  /\ \E E \in ExpSamples, U \in UnitSamples(NDims, PBits), v \in LeftVals :
       LET y == DimQ(E, U, v)
           z == DimQRecip(RepT(1, 1), y)
       IN  /\ op' = "ReciprocalProduct"
           /\ args' = <<y, z.val>>
           /\ out' = DimQMul(y, z.val)
  /\ UNCHANGED fmh

CallOnly2and3 ==
  /\ Ready
  /\ \E a_n \in 0 .. MaxOnlyArg :
       /\ op' = "Only2and3"
       /\ args' = <<a_n>>
       /\ out' = Ok(Only2and3(a_n))
  /\ UNCHANGED fmh

CallNormaliseFrac ==
  /\ Ready
  /\ \E m \in -MaxPow .. MaxPow, n \in -MaxDen .. MaxDen :
       /\ op' = "NormaliseFrac"
       /\ args' = <<m, n>>
       /\ out' = NormaliseFrac(m, n)
  /\ UNCHANGED fmh

\* n # 0: FracPower has static_assert(N != 0)
CallNormaliseNumerDenom ==
  /\ Ready
  /\ \E m \in -MaxPow .. MaxPow, n \in (-MaxDen .. MaxDen) \ {0} :
       /\ op' = "NormaliseNumerDenom"
       /\ args' = <<m, n>>
       /\ out' = Ok(<<NormaliseNumer(m, n), NormaliseDenom(m, n)>>)
  /\ UNCHANGED fmh

CallIntPower ==
  /\ Ready
  /\ \E M \in -MaxPow .. MaxPow :
       /\ op' = "IntPower"
       /\ args' = <<M>>
       /\ out' = Ok(IntPower(M, PwX))
  /\ UNCHANGED fmh

CallIntPowerFP ==
  /\ Ready
  /\ \E M \in -MaxPow .. MaxPow :
       /\ op' = "IntPowerFP"
       /\ args' = <<M>>
       /\ out' = Ok(IntPowerFP(M, PwX))
  /\ UNCHANGED fmh

CallFracPower23 ==
  /\ Ready
  /\ \E M \in -MaxPow .. MaxPow, N \in 0 .. MaxDen :
       /\ op' = "FracPower23"
       /\ args' = <<M, N>>
       /\ out' = FracPower23(M, N, PwX)
  /\ UNCHANGED fmh

CallFracPower ==
  /\ Ready
  /\ \E M \in -MaxPow .. MaxPow, N \in 0 .. MaxDen :
       /\ op' = "FracPower"
       /\ args' = <<M, N>>
       /\ out' = FracPower(M, N, PwX)
  /\ UNCHANGED fmh

CallFracPowerFP ==
  /\ Ready
  /\ \E M \in -MaxPow .. MaxPow, N \in 0 .. MaxDen :
       /\ op' = "FracPowerFP"
       /\ args' = <<M, N>>
       /\ out' = FracPowerFP(M, N, PwX)
  /\ UNCHANGED fmh

CallDimQRPow ==
  /\ Ready
  /\ \E M \in -MaxRPow .. MaxRPow, N \in RPowDenoms, q \in RPowSamples :
       /\ op' = "DimQRPow"
       /\ args' = <<M, N, q>>
       /\ out' = DimQRPow(M, N, q)
  /\ UNCHANGED fmh

CallTo_Dim_Unit ==
  /\ Ready
  /\ \E Dim \in ConvDims, NewUnit \in 0 .. MaxUnit, a_dimq \in ConvSamples :
       /\ op' = "To_Dim_Unit"
       /\ args' = <<Dim, NewUnit, a_dimq>>
       /\ out' = To_Dim_Unit(Dim, NewUnit, a_dimq)
  /\ UNCHANGED fmh

CallTo_Dim ==
  /\ Ready
  /\ \E Dim \in ConvDims, a_dimq \in ConvSamples :
       /\ op' = "To_Dim"
       /\ args' = <<Dim, 0, a_dimq>>
       /\ out' = To_Dim(Dim, a_dimq)
  /\ UNCHANGED fmh

CallPutFld ==
  /\ Ready
  /\ \E v \in PackVals, dim \in 0 .. (NDims - 1) :
       /\ op' = "PutFld"
       /\ args' = <<v, dim>>
       /\ out' = Ok(PutFld(ULong(v), dim))
  /\ UNCHANGED fmh

CallDimExp ==
  /\ Ready
  /\ \E dim \in 0 .. (NDims - 1) :
       /\ op' = "DimExp"
       /\ args' = <<dim>>
       /\ out' = Ok(DimExp(dim))
  /\ UNCHANGED fmh

CallSetUnit ==
  /\ Ready
  /\ \E U \in UnitSamples(NDims, PBits), dim \in 0 .. (NDims - 1), unit \in PackVals :
       /\ op' = "SetUnit"
       /\ args' = <<U, dim, unit>>
       /\ out' = Ok(SetUnit(U, dim, unit))
  /\ UNCHANGED fmh

CallMkUnit ==
  /\ Ready
  /\ \E dim \in 0 .. (NDims - 1), unit \in PackVals :
       /\ op' = "MkUnit"
       /\ args' = <<dim, unit>>
       /\ out' = Ok(MkUnit(dim, unit))
  /\ UNCHANGED fmh

Next ==
  \/ FindMaxHeightStep
  \/ CallNormalise
  \/ CallInverseModP
  \/ CallGetNumerAndDenom
  \/ CallInverseModP127
  \/ CallNormalise127
  \/ CallNumerDenom
  \/ CallAddExp
  \/ CallSubExp
  \/ CallAddExp127
  \/ CallSubExp127
  \/ CallDivExp
  \/ CallDivExp127
  \/ CallAddRoots127
  \/ CallMultExp
  \/ CallMultExp127
  \/ CallUnifyUnits
  \/ CallUnifyUnits127
  \/ CallUnitsOK
  \/ CallUnitsOK127
  \/ CallCleanUpUnits
  \/ CallCleanUpUnits127
  \/ CallDimQAdd
  \/ CallDimQAddAssign
  \/ CallDimQSub
  \/ CallDimQSubAssign
  \/ CallDimQATan2
  \/ CallDimQCmp
  \/ CallDimQMul
  \/ CallDimQDiv
  \/ CallReciprocalProduct
  \/ CallOnly2and3
  \/ CallNormaliseFrac
  \/ CallNormaliseNumerDenom
  \/ CallIntPower
  \/ CallIntPowerFP
  \/ CallFracPower23
  \/ CallFracPower
  \/ CallFracPowerFP
  \/ CallDimQRPow
  \/ CallTo_Dim_Unit
  \/ CallTo_Dim
  \/ CallPutFld
  \/ CallDimExp
  \/ CallSetUnit
  \/ CallMkUnit
  \/ Return

Spec == Init /\ [][Next]_vars

(***************************************************************************)
(* The exponent vectors of the types a program can form: two vectors are   *)
(* held, args[1] the latest and args[2] the one before; every step applies *)
(* one operation of the header to them and keeps its result.               *)
(***************************************************************************)
ExpAtoms == {ZeroWord, DimExp(0), DimExp(NDims - 1)}

ExpMults == {-PMod, -1, 0, 2}

ExpDivs == {2, PMod, PMod + 3}

InitExp ==
  /\ fmh = FMHInit
  /\ op = "DimExp"
  /\ \E A \in ExpAtoms, B \in ExpAtoms : args = <<A, B, 0>>
  /\ out = Ok(args[1])

\* The result r becomes the latest vector; an operation that throws adds no
\* vector.
KeptVectors(r) ==
  IF r.err = "" THEN <<r.val, args[1], args[3] + 1>>
  ELSE <<args[1], args[2], args[3] + 1>>

\* The two orders of the operands.
Orders == {<<1, 2>>, <<2, 1>>}

FormAddExp ==
  /\ args[3] < MaxOps
  /\ \E p \in Orders :
       LET r == Ok(AddExp(args[p[1]], args[p[2]]))
       IN  /\ op' = "AddExp"
           /\ out' = r
           /\ args' = KeptVectors(r)
  /\ UNCHANGED fmh

FormSubExp ==
  /\ args[3] < MaxOps
  /\ \E p \in Orders :
       LET r == Ok(SubExp(args[p[1]], args[p[2]]))
       IN  /\ op' = "SubExp"
           /\ out' = r
           /\ args' = KeptVectors(r)
  /\ UNCHANGED fmh

FormMultExp ==
  /\ args[3] < MaxOps
  /\ \E m \in ExpMults :
       LET r == Ok(MultExp(args[1], m))
       IN  /\ op' = "MultExp"
           /\ out' = r
           /\ args' = KeptVectors(r)
  /\ UNCHANGED fmh

FormDivExp ==
  /\ args[3] < MaxOps
  /\ \E n \in ExpDivs :
       LET r == DivExp(args[1], n)
       IN  /\ op' = "DivExp"
           /\ out' = r
           /\ args' = KeptVectors(r)
  /\ UNCHANGED fmh

NextExp ==
  \/ FormAddExp
  \/ FormSubExp
  \/ FormMultExp
  \/ FormDivExp

SpecExp == InitExp /\ [][NextExp]_vars

(***************************************************************************)
(* The quantity types a program can form from the declared ones: two       *)
(* types are held, args[1] the latest and args[2] the one before; every    *)
(* step applies one public operation and keeps the type of its result.     *)
(* The magnitude plays no part in the type and is kept at 1.  args[4]      *)
(* records that a conversion was applied in a dimension of exponent 0.     *)
(***************************************************************************)
DeclaredTypes ==
  {DimQ(DimExp(0), MkUnit(0, u), <<1, 1>>) : u \in {0, MaxUnit}}
  \cup {DimQ(DimExp(NDims - 1), MkUnit(NDims - 1, 0), <<1, 1>>)}

InitDimQ ==
  /\ fmh = FMHInit
  /\ op = "DimQ"
  /\ \E A \in DeclaredTypes, B \in DeclaredTypes : args = <<A, B, 0, FALSE>>
  /\ out = Ok(args[1])

\* The type of the result r becomes the latest type; an operation that does
\* not compile adds no type.
KeptTypes(r, conv) ==
  IF r.err = ""
  THEN <<DimQ(r.val.E, r.val.U, <<1, 1>>), args[1], args[3] + 1, args[4] \/ conv>>
  ELSE <<args[1], args[2], args[3] + 1, args[4]>>

TypeMul ==
  /\ args[3] < MaxTypeOps
  /\ LET r == DimQMul(args[1], args[2])
     IN  /\ op' = "DimQMul"
         /\ out' = r
         /\ args' = KeptTypes(r, FALSE)
  /\ UNCHANGED fmh

TypeDiv ==
  /\ args[3] < MaxTypeOps
  /\ \E p \in Orders :
       LET r == DimQDiv(args[p[1]], args[p[2]])
       IN  /\ op' = "DimQDiv"
           /\ out' = r
           /\ args' = KeptTypes(r, FALSE)
  /\ UNCHANGED fmh

TypeRecip ==
  /\ args[3] < MaxTypeOps
  /\ LET r == DimQRecip(<<1, 1>>, args[1])
     IN  /\ op' = "DimQRecip"
         /\ out' = r
         /\ args' = KeptTypes(r, FALSE)
  /\ UNCHANGED fmh

TypeIPow ==
  /\ args[3] < MaxTypeOps
  /\ \E M \in {-2, 0} :
       LET r == DimQIPow(M, args[1])
       IN  /\ op' = "DimQIPow"
           /\ out' = r
           /\ args' = KeptTypes(r, FALSE)
  /\ UNCHANGED fmh

TypeSqr ==
  /\ args[3] < MaxTypeOps
  /\ LET r == DimQSqr(args[1])
     IN  /\ op' = "DimQSqr"
         /\ out' = r
         /\ args' = KeptTypes(r, FALSE)
  /\ UNCHANGED fmh

TypeCube ==
  /\ args[3] < MaxTypeOps
  /\ LET r == DimQCube(args[1])
     IN  /\ op' = "DimQCube"
         /\ out' = r
         /\ args' = KeptTypes(r, FALSE)
  /\ UNCHANGED fmh

TypeRPow ==
  /\ args[3] < MaxTypeOps
  /\ \E e \in {<<2, 3>>, <<-1, 2>>} :
       LET r == DimQRPow(e[1], e[2], args[1])
       IN  /\ op' = "DimQRPow"
           /\ out' = r
           /\ args' = KeptTypes(r, FALSE)
  /\ UNCHANGED fmh

TypeSqRt ==
  /\ args[3] < MaxTypeOps
  /\ LET r == DimQSqRt(args[1])
     IN  /\ op' = "DimQSqRt"
         /\ out' = r
         /\ args' = KeptTypes(r, FALSE)
  /\ UNCHANGED fmh

TypeCbRt ==
  /\ args[3] < MaxTypeOps
  /\ LET r == DimQCbRt(args[1])
     IN  /\ op' = "DimQCbRt"
         /\ out' = r
         /\ args' = KeptTypes(r, FALSE)
  /\ UNCHANGED fmh

TypeTo_Dim_Unit ==
  /\ args[3] < MaxTypeOps
  /\ \E Dim \in {0, NDims - 1}, NewUnit \in {0, MaxUnit} :
       LET r == To_Dim_Unit(Dim, NewUnit, args[1])
       IN  /\ op' = "To_Dim_Unit"
           /\ out' = r
           /\ args' = KeptTypes(r, GetFld(args[1].E, Dim) = 0)
  /\ UNCHANGED fmh

NextDimQ ==
  \/ TypeMul
  \/ TypeDiv
  \/ TypeRecip
  \/ TypeIPow
  \/ TypeSqr
  \/ TypeCube
  \/ TypeRPow
  \/ TypeSqRt
  \/ TypeCbRt
  \/ TypeTo_Dim_Unit

SpecDimQ == InitDimQ /\ [][NextDimQ]_vars

\* The evaluation of the constexpr MaxHeight alone.
SpecFMH == Init /\ [][FindMaxHeightStep]_vars

(***************************************************************************)
(* Vocabulary of the properties                                            *)
(***************************************************************************)
\* The residue of the rational m/n.
Encode(m, n) == (Normalise(m) * InverseModP(n).val) % PMod

Encode127(m, n) == (Normalise127(m) * InverseModP127(n)) % PMod127

Abs(x) == IF x >= 0 THEN x ELSE -x

\* The pairs (m, n) with m # 0, n >= 1 of height |m| + n = h, and the reduced ones.
PairsAtHeight(h) == {<<sg * (h - n), n>> : n \in 1 .. (h - 1), sg \in {1, -1}}

ReducedAtHeight(h) == {p \in PairsAtHeight(h) : GCD(p[1], p[2]) = 1}

ReducedUpTo(H) == UNION {ReducedAtHeight(h) : h \in 2 .. H}

PairsBelow(H) == UNION {PairsAtHeight(h) : h \in 2 .. (H - 1)}

\* Field dim of a word, read bit by bit.
FieldAt(w, dim, bits) ==
  LET RECURSIVE Sum(_)
      Sum(j) == IF j >= bits THEN 0 ELSE w[dim * bits + j] * (2 ^ j) + Sum(j + 1)
  IN  Sum(0)

RepNotMatched == "ERROR: DimTypes::Bits::GetNumerAndDenom: Rep Not Matched"

(***************************************************************************)
(* Properties                                                              *)
(***************************************************************************)
\* C1: every reduced rational m/n of height <= MaxHeight (and 0/1) is returned by
\* GetNumerAndDenom applied to its residue Encode(m, n).
C1_RoundTrip ==
  op = "GetNumerAndDenom" =>
    \A p \in ReducedUpTo(MaxHeight) \cup {<<0, 1>>} :
      Encode(p[1], p[2]) = args[1] => out = Ok(p)

\* C2: for every n in 1 .. P-1, InverseModP(n) is in 0 .. P-1 and
\* (n * InverseModP(n)) mod P = 1, in both headers; InverseModP(2) = 64 for P = 127.
C2_InverseLaw ==
  /\ (op = "InverseModP" /\ args[1] \in 1 .. (PMod - 1)) =>
        /\ out.err = ""
        /\ out.val \in 0 .. (PMod - 1)
        /\ (args[1] * out.val) % PMod = 1
  /\ (op = "InverseModP127" /\ args[1] \in 1 .. (PMod127 - 1)) =>
        /\ out.val \in 0 .. (PMod127 - 1)
        /\ (args[1] * out.val) % PMod127 = 1
        /\ (args[1] = 2 => out.val = 64)

C2_Witness == op = "InverseModP127" /\ args[1] = 2 /\ out.val = 64

\* C3: the value H returned by FindMaxHeight is the exact injectivity bound: the
\* residues of the reduced rationals +-m/n of height 2 .. H are pairwise distinct,
\* and some reduced rational of height H+1 shares its residue with another
\* reduced rational of height <= H+1.
C3_ExactBound ==
  fmh.pc = "done" =>
    LET H == fmh.result
    IN  /\ \A p \in ReducedUpTo(H) : \A q \in ReducedUpTo(H) :
              Encode(p[1], p[2]) = Encode(q[1], q[2]) => p = q
        /\ \E p \in ReducedAtHeight(H + 1) : \E q \in ReducedUpTo(H + 1) :
              q # p /\ Encode(p[1], p[2]) = Encode(q[1], q[2])

C3_Witness == fmh.pc = "done" /\ fmh.result = 24 /\ fmh.height = 25

\* C4: a pair (m, n) returned by a decoder for a non-zero residue r has minimal
\* height: no pair of smaller height encodes to r; at the same height no smaller
\* denominator does, and a negative m is returned only if +|m|/n does not.
C4_MinimalHeight ==
  /\ (op = "GetNumerAndDenom" /\ args[1] # 0 /\ out.err = "") =>
        LET m == out.val[1]
            n == out.val[2]
            h == Abs(m) + n
        IN  /\ \A p \in PairsBelow(h) : Encode(p[1], p[2]) # args[1]
            /\ \A p \in PairsAtHeight(h) : p[2] < n => Encode(p[1], p[2]) # args[1]
            /\ m < 0 => Encode(-m, n) # args[1]
  /\ (op = "NumerDenom" /\ args[1] # 0) =>
        LET m == out.val[1]
            n == out.val[2]
            h == Abs(m) + n
        IN  /\ \A p \in PairsBelow(h) : Encode127(p[1], p[2]) # args[1]
            /\ \A p \in PairsAtHeight(h) : p[2] < n => Encode127(p[1], p[2]) # args[1]
            /\ m < 0 => Encode127(-m, n) # args[1]

C4_Witness ==
  op = "GetNumerAndDenom" /\ out.err = "" /\ out.val = <<-7, 5>>

\* C5: no two distinct reduced rationals of height <= MaxHeight (= 15, old header)
\* have the same residue modulo 127.
C5_MaxHeight127CollisionFree ==
  op = "NumerDenom" =>
    \A p \in ReducedUpTo(MaxHeight127) : \A q \in ReducedUpTo(MaxHeight127) :
      (Encode127(p[1], p[2]) = args[1] /\ Encode127(q[1], q[2]) = args[1]) => p = q

\* C6: in the old header, the exponent of dimension d in the product of the
\* square root and the cube root of DimExp(d) decodes to 5/6.
C6_HalfPlusThird ==
  (op = "AddRoots127" /\ args[2] = 2 /\ args[3] = 3) => out.val = <<5, 6>>

C6_Witness ==
  op = "AddRoots127" /\ args = <<NDims127 - 1, 2, 3>> /\ out.val = <<5, 6>>

\* C7: in both headers InverseModP(n) throws for every n = 0 (mod P), and
\* DivExp(E, n) throws for n = 0 and for every n = 0 (mod P), whatever E is.
C7_UninvertibleFails ==
  /\ (op = "InverseModP" /\ args[1] % PMod = 0) => out.err # ""
  /\ (op = "DivExp" /\ args[2] % PMod = 0) => out.err # ""
  /\ (op = "InverseModP127" /\ args[1] % PMod127 = 0) => out.err # ""
  /\ (op = "DivExp127" /\ args[2] % PMod127 = 0) => out.err # ""

\* C8: for a non-zero field value r, GetNumerAndDenom(r) throws 'Rep Not Matched'
\* if r is the residue of no reduced rational of height <= MaxHeight, and
\* returns a pair without throwing if it is one.
C8_DecodeExhausted ==
  (op = "GetNumerAndDenom" /\ args[1] # 0) =>
    IF \E p \in ReducedUpTo(MaxHeight) : Encode(p[1], p[2]) = args[1]
    THEN out.err = ""
    ELSE out.err = RepNotMatched

\* C9: Normalise(x) is in 0 .. P-1 and congruent to x modulo P, for every x.
C9_NormaliseRange ==
  /\ op = "Normalise" =>
        out.val \in 0 .. (PMod - 1) /\ (out.val - args[1]) % PMod = 0
  /\ op = "Normalise127" =>
        out.val \in 0 .. (PMod127 - 1) /\ (out.val - args[1]) % PMod127 = 0

\* C10: for E, F with all fields below P, field d of AddExp(E, F) is
\* (E_d + F_d) mod P and field d of SubExp(E, F) is (P + E_d - F_d) mod P,
\* also when E or F is 0 and the call returns the other operand at once.
C10_FieldWise ==
  /\ op = "AddExp" =>
        \A d \in 0 .. (NDims - 1) :
          FieldAt(out.val, d, PBits)
            = (FieldAt(args[1], d, PBits) + FieldAt(args[2], d, PBits)) % PMod
  /\ op = "SubExp" =>
        \A d \in 0 .. (NDims - 1) :
          FieldAt(out.val, d, PBits)
            = (PMod + FieldAt(args[1], d, PBits) - FieldAt(args[2], d, PBits)) % PMod
  /\ op = "AddExp127" =>
        \A d \in 0 .. (NDims127 - 1) :
          FieldAt(out.val, d, PBits127)
            = (FieldAt(args[1], d, PBits127) + FieldAt(args[2], d, PBits127))
              % PMod127
  /\ op = "SubExp127" =>
        \A d \in 0 .. (NDims127 - 1) :
          FieldAt(out.val, d, PBits127)
            = (PMod127 + FieldAt(args[1], d, PBits127)
                 - FieldAt(args[2], d, PBits127)) % PMod127

C10_Witness ==
  /\ op = "AddExp"
  /\ args[1] = ZeroWord
  /\ FieldAt(args[2], NDims - 1, PBits) = PMod - 1
  /\ FieldAt(out.val, NDims - 1, PBits) = PMod - 1

\* C11: on exponent vectors with all fields below P, AddExp(E, 0) = E,
\* AddExp(E, F) = AddExp(F, E) and SubExp(AddExp(E, F), F) = E, in both headers.
C11_GroupLaws ==
  /\ op = "AddExp" =>
        /\ args[2] = ZeroWord => out.val = args[1]
        /\ out.val = AddExp(args[2], args[1])
        /\ SubExp(out.val, args[2]) = args[1]
  /\ op = "AddExp127" =>
        /\ args[2] = ZeroWord => out.val = args[1]
        /\ out.val = AddExp127(args[2], args[1])
        /\ SubExp127(out.val, args[2]) = args[1]

C11_Witness ==
  /\ op = "AddExp"
  /\ FieldAt(args[1], 0, PBits) = PMod - 1
  /\ FieldAt(args[2], 0, PBits) = 1
  /\ FieldAt(args[2], 1, PBits) = 1
  /\ FieldAt(out.val, 0, PBits) = 0
  /\ SubExp(out.val, args[2]) = args[1]

\* Second multipliers: negative, zero, small, and beyond P.
SecondArgs(P) == {-P - 1, -1, 0, 2, P, P + MaxMult}

\* C12: for E with all fields below P and integers m, k: MultExp(E, 1) = E,
\* field d of MultExp(E, m) is (E_d * (m mod P)) mod P, and
\* MultExp(MultExp(E, m), k) = MultExp(E, (m * k) mod P), in both headers.
C12_ScalarLaws ==
  /\ op = "MultExp" =>
        /\ args[2] = 1 => out.val = args[1]
        /\ \A d \in 0 .. (NDims - 1) :
              FieldAt(out.val, d, PBits)
                = (FieldAt(args[1], d, PBits) * (args[2] % PMod)) % PMod
        /\ \A k \in SecondArgs(PMod) :
              MultExp(out.val, k) = MultExp(args[1], (args[2] * k) % PMod)
  /\ op = "MultExp127" =>
        /\ args[2] = 1 => out.val = args[1]
        /\ \A d \in 0 .. (NDims127 - 1) :
              FieldAt(out.val, d, PBits127)
                = (FieldAt(args[1], d, PBits127) * (args[2] % PMod127)) % PMod127
        /\ \A k \in SecondArgs(PMod127) :
              MultExp127(out.val, k) = MultExp127(args[1], (args[2] * k) % PMod127)

C12_Witness ==
  /\ op = "MultExp"
  /\ args[2] = -PMod - 1
  /\ FieldAt(args[1], NDims - 1, PBits) = 1
  /\ FieldAt(out.val, NDims - 1, PBits) = PMod - 1

\* The unit selector that unification gives to one dimension.
UnitRule(e, f, u, v) ==
  IF e = 0 /\ f = 0 THEN 0 ELSE IF e = 0 THEN v ELSE u

\* Dimension d < N where both exponents are present and the units differ.
UnitClash(E, F, U, V, N, bits) ==
  \E d \in 0 .. (N - 1) :
    /\ FieldAt(E, d, bits) # 0
    /\ FieldAt(F, d, bits) # 0
    /\ FieldAt(U, d, bits) # FieldAt(V, d, bits)

UnifiedAsRuled(E, F, U, V, res, N, bits) ==
  /\ \A d \in 0 .. (N - 1) :
       FieldAt(res, d, bits)
         = UnitRule(FieldAt(E, d, bits), FieldAt(F, d, bits),
                    FieldAt(U, d, bits), FieldAt(V, d, bits))
  /\ \A i \in BitIdx : i >= N * bits => res[i] = 0

\* U has selectors only in the dimensions present in E, and no other bits.
Canonical(E, U, N, bits) ==
  /\ \A d \in 0 .. (N - 1) : FieldAt(E, d, bits) = 0 => FieldAt(U, d, bits) = 0
  /\ \A i \in BitIdx : i >= N * bits => U[i] = 0

\* C13: when UnifyUnits(E,F,U,V) succeeds, the field of every dimension is
\* 0 if e = f = 0, v if only f is non-zero, u if only e is non-zero, u (= v)
\* if both are non-zero, and no bit outside the N fields is set (both headers).
C13_UnifiedFields ==
  /\ (op = "UnifyUnits" /\ out.err = "") =>
        UnifiedAsRuled(args[1], args[2], args[3], args[4], out.val, NDims, PBits)
  /\ (op = "UnifyUnits127" /\ out.err = "") =>
        UnifiedAsRuled(args[1], args[2], args[3], args[4], out.val,
                       NDims127, PBits127)

\* C14: UnifyUnits fails if and only if some dimension d < N has both
\* exponent fields non-zero and differing unit fields (both headers).
C14_FailsIffClash ==
  /\ op = "UnifyUnits" =>
        (out.err # "" <=>
           UnitClash(args[1], args[2], args[3], args[4], NDims, PBits))
  /\ op = "UnifyUnits127" =>
        (out.err # "" <=>
           UnitClash(args[1], args[2], args[3], args[4], NDims127, PBits127))

C14_Witness ==
  /\ op = "UnifyUnits"
  /\ FieldAt(args[1], 0, PBits) = 1
  /\ FieldAt(args[2], 0, PBits) = 1
  /\ FieldAt(args[3], 0, PBits) = 1
  /\ FieldAt(args[4], 0, PBits) = 2
  /\ out.err = "ERROR: DimTypes::Bits::UnifyUnits: Unification Failed"

\* C15: for all exponent vectors E, F and unit vectors U, V,
\* UnifyUnits(0,F,U,V) = V and UnifyUnits(E,0,U,V) = U (both headers).
C15_UnificationIdentity ==
  (op = "UnifyUnits" \/ op = "UnifyUnits127") =>
     /\ args[1] = ZeroWord => out = Ok(args[4])
     /\ args[2] = ZeroWord => out = Ok(args[3])

\* C15, amended: when U has selectors only in the dimensions of E and V only
\* in the dimensions of F, UnifyUnits(0,F,U,V) = V and UnifyUnits(E,0,U,V) = U
\* (both headers).
C15_CanonicalIdentity ==
  /\ (/\ op = "UnifyUnits"
      /\ Canonical(args[1], args[3], NDims, PBits)
      /\ Canonical(args[2], args[4], NDims, PBits)) =>
        /\ args[1] = ZeroWord => out = Ok(args[4])
        /\ args[2] = ZeroWord => out = Ok(args[3])
  /\ (/\ op = "UnifyUnits127"
      /\ Canonical(args[1], args[3], NDims127, PBits127)
      /\ Canonical(args[2], args[4], NDims127, PBits127)) =>
        /\ args[1] = ZeroWord => out = Ok(args[4])
        /\ args[2] = ZeroWord => out = Ok(args[3])

C15_Witness ==
  /\ op = "UnifyUnits"
  /\ args[1] = ZeroWord
  /\ args[3] = ZeroWord
  /\ FieldAt(args[2], 0, PBits) # 0
  /\ FieldAt(args[4], 0, PBits) = MaxUnit
  /\ Canonical(args[2], args[4], NDims, PBits)
  /\ out = Ok(args[4])

\* C16: UnitsOK(E,U,V) is true if and only if U and V agree in every
\* dimension d < N present in E; so UnitsOK(E,U,U) and UnitsOK(0,U,V) are
\* true (both headers).
C16_UnitsOK ==
  /\ op = "UnitsOK" =>
        /\ out.val = (\A d \in 0 .. (NDims - 1) :
                        FieldAt(args[1], d, PBits) # 0 =>
                          FieldAt(args[2], d, PBits) = FieldAt(args[3], d, PBits))
        /\ args[2] = args[3] => out.val = TRUE
        /\ args[1] = ZeroWord => out.val = TRUE
  /\ op = "UnitsOK127" =>
        /\ out.val = (\A d \in 0 .. (NDims127 - 1) :
                        FieldAt(args[1], d, PBits127) # 0 =>
                          FieldAt(args[2], d, PBits127)
                            = FieldAt(args[3], d, PBits127))
        /\ args[2] = args[3] => out.val = TRUE
        /\ args[1] = ZeroWord => out.val = TRUE

C16_Witness ==
  /\ op = "UnitsOK"
  /\ FieldAt(args[1], 0, PBits) # 0
  /\ FieldAt(args[1], NDims - 1, PBits) = 0
  /\ FieldAt(args[2], 0, PBits) = FieldAt(args[3], 0, PBits)
  /\ FieldAt(args[2], NDims - 1, PBits) # FieldAt(args[3], NDims - 1, PBits)
  /\ out.val = TRUE

\* C17: the field of CleanUpUnits(E,U) in every dimension d < N is U's field
\* if E's field is non-zero and 0 otherwise, and
\* CleanUpUnits(E, CleanUpUnits(E,U)) = CleanUpUnits(E,U) (both headers).
C17_CleanUp ==
  /\ op = "CleanUpUnits" =>
        /\ \A d \in 0 .. (NDims - 1) :
             FieldAt(out.val, d, PBits)
               = IF FieldAt(args[1], d, PBits) # 0
                 THEN FieldAt(args[2], d, PBits) ELSE 0
        /\ CleanUpUnits(args[1], out.val) = out.val
  /\ op = "CleanUpUnits127" =>
        /\ \A d \in 0 .. (NDims127 - 1) :
             FieldAt(out.val, d, PBits127)
               = IF FieldAt(args[1], d, PBits127) # 0
                 THEN FieldAt(args[2], d, PBits127) ELSE 0
        /\ CleanUpUnits127(args[1], out.val) = out.val

C17_Witness ==
  /\ op = "CleanUpUnits127"
  /\ FieldAt(args[1], 0, PBits127) = 0
  /\ FieldAt(args[2], 0, PBits127) = 1
  /\ FieldAt(out.val, 0, PBits127) = 0
  /\ FieldAt(args[1], NDims127 - 1, PBits127) # 0
  /\ FieldAt(out.val, NDims127 - 1, PBits127) = MaxUnit

\* U and V agree in every dimension present in E.
UnitsAgree(E, U, V) ==
  \A d \in 0 .. (NDims - 1) :
    FieldAt(E, d, PBits) # 0 => FieldAt(U, d, PBits) = FieldAt(V, d, PBits)

GatedOps ==
  {"DimQAdd", "DimQAddAssign", "DimQSub", "DimQSubAssign", "DimQATan2", "DimQCmp"}

DimsRejections ==
  {"ERROR: +: Different Dims", "ERROR: +=: Different Dims",
   "ERROR: -: Different Dims", "ERROR: -=: Different Dims",
   "ERROR: ATan2: Different Dims", "no match for operator"}

UnitsRejections ==
  {"ERROR: +: Units do not unify", "ERROR: +=: Units do not unify",
   "ERROR: -: Units do not unify", "ERROR: -=: Units do not unify",
   "ERROR: ATan2: Units do not unify", "ERROR: Units do not unify"}

\* C18: +, -, +=, -=, ATan2 and the six comparisons on (E,U) and (F,V) are
\* accepted only when E = F bit for bit and UnitsOK(E,U,V); otherwise they
\* are rejected, for different dimensions or for mismatching units, and give
\* no result; an accepted +, -, += or -= keeps the left operand's (E,U).
C18_GatedOperators ==
  op \in GatedOps =>
    /\ out.err = "" => (/\ args[1].E = args[2].E
                        /\ UnitsAgree(args[1].E, args[1].U, args[2].U))
    /\ args[1].E # args[2].E => out.err \in DimsRejections
    /\ (/\ args[1].E = args[2].E
        /\ ~UnitsAgree(args[1].E, args[1].U, args[2].U))
          => out.err \in UnitsRejections
    /\ out.err # "" => out.val = 0
    /\ (out.err = "" /\ op \in {"DimQAdd", "DimQAddAssign", "DimQSub", "DimQSubAssign"})
          => (out.val.E = args[1].E /\ out.val.U = args[1].U)

C18_Witness ==
  /\ op = "DimQAdd"
  /\ args[1].E = args[2].E
  /\ args[1].U = args[2].U
  /\ FieldAt(args[1].E, 0, PBits) = 1
  /\ FieldAt(args[1].U, 0, PBits) = MaxUnit
  /\ out.err = ""
  /\ out.val = DimQ(args[1].E, args[1].U, <<7, 2>>)

\* C19: a quantity times its own reciprocal, or divided by itself, has the
\* dimension-less type: for E with fields below P and any U,
\* AddExp(E, SubExp(0,E)) = 0, SubExp(E,E) = 0 and
\* CleanUpUnits(0, UnifyUnits(E, SubExp(0,E), U, U)) = 0, so the result's
\* (E,U) is (0,0).
C19_ReciprocalCancels ==
  /\ op = "ReciprocalProduct" =>
        /\ out.err = ""
        /\ out.val.E = ZeroWord
        /\ out.val.U = ZeroWord
        /\ AddExp(args[1].E, SubExp(ZeroWord, args[1].E)) = ZeroWord
        /\ SubExp(args[1].E, args[1].E) = ZeroWord
        /\ CleanUpUnits(ZeroWord,
             UnifyUnits(args[1].E, SubExp(ZeroWord, args[1].E),
                        args[1].U, args[1].U).val) = ZeroWord
  /\ (op = "DimQDiv" /\ args[1].E = args[2].E /\ args[1].U = args[2].U) =>
        /\ out.err = ""
        /\ out.val.E = ZeroWord
        /\ out.val.U = ZeroWord

C19_Witness ==
  /\ op = "ReciprocalProduct"
  /\ FieldAt(args[1].E, 0, PBits) = 1
  /\ FieldAt(args[2].E, 0, PBits) = PMod - 1
  /\ FieldAt(args[1].U, 0, PBits) = MaxUnit
  /\ FieldAt(args[2].U, 0, PBits) = MaxUnit
  /\ out = Ok(DimQ(ZeroWord, ZeroWord, <<1, 1>>))

\* n = 2^a * 3^b for some a, b >= 0.
IsProductOf2and3(n) ==
  \E a \in 0 .. MaxOnlyArg, b \in 0 .. MaxOnlyArg : n = (2 ^ a) * (3 ^ b)

\* C20: Only2and3(n) is true if and only if n >= 1 and n = 2^a * 3^b; it is
\* true for 1, 2, 3, 4, 6, 12 and false for 5, 7, 10.
C20_Only2and3 ==
  op = "Only2and3" =>
    /\ out.val = (args[1] >= 1 /\ IsProductOf2and3(args[1]))
    /\ args[1] \in {1, 2, 3, 4, 6, 12} => out.val = TRUE
    /\ args[1] \in {5, 7, 10} => out.val = FALSE

\* C21: IntPow<M>(x) is x to the power M for every integer M: 1 for M = 0,
\* the product of M copies of x for M > 0, and 1 / IntPow<-M>(x) for M < 0
\* (the exponent of x in the result is M; both implementations).
C21_IntPow ==
  (op = "IntPower" \/ op = "IntPowerFP") =>
    /\ out.val.exp = <<args[1], 1>>
    /\ out.val.calls = <<>>

\* The number of entries of the sequence s equal to c.
CountOf(s, c) == Cardinality({i \in 1 .. Len(s) : s[i] = c})

\* How often the prime p divides n >= 1.
RECURSIVE TimesDivisible(_, _)
TimesDivisible(n, p) == IF n % p = 0 THEN 1 + TimesDivisible(n \div p, p) ELSE 0

\* The reduced pair of M / N, N >= 1.
ReducedPair(M, N) ==
  CHOOSE q \in ((-MaxPow) .. MaxPow) \X (1 .. MaxDen) :
    /\ q[1] * N = M * q[2]
    /\ \A k \in 2 .. MaxDen : ~(q[1] % k = 0 /\ q[2] % k = 0)

OnlyFactors2and3(n) == n = (2 ^ TimesDivisible(n, 2)) * (3 ^ TimesDivisible(n, 3))

\* The dispatch of FracPow<M,N> on the value res, where intPow is IntPow<M1>
\* applied to the root of x that res was computed from.
DispatchedAsClaimed(M, N, res, intPow) ==
  LET q  == ReducedPair(M, N)
      M1 == q[1]
      N1 == q[2]
  IN  /\ res.err = ""
      /\ M1 = 0 => res.val = PwOne
      /\ (M1 # 0 /\ N1 = 1) => res.val = intPow
      /\ (M1 # 0 /\ N1 > 1 /\ OnlyFactors2and3(N1)) =>
            /\ CountOf(res.val.calls, "pow") = 0
            /\ CountOf(res.val.calls, "sqrt") = TimesDivisible(N1, 2)
            /\ CountOf(res.val.calls, "cbrt") = TimesDivisible(N1, 3)
            /\ res.val = intPow
      /\ (M1 # 0 /\ N1 > 1 /\ ~OnlyFactors2and3(N1)) =>
            res.val = PwPow(PwX, M1, N1)
      /\ (M = 1 /\ N = 2) => res.val = PwSqrt(PwX)
      /\ (M = 1 /\ N = 3) => res.val = PwCbrt(PwX)

\* The root of x of degree N, reached by the library calls of res.
RootOfX(N, res) == [exp |-> <<1, N>>, calls |-> res.val.calls]

\* C22: FracPow<M,N>(x) returns 1 when M1 = 0, IntPow<M1>(x) when N1 = 1;
\* when N1 > 1 has only the prime factors 2 and 3 it applies one SqRt per
\* factor 2 and one CbRt per factor 3 and then IntPow<M1>, never Pow;
\* otherwise it calls Pow(x, M1/N1).  FracPow<1,2>(x) is SqRt(x) and
\* FracPow<1,3>(x) is CbRt(x) (both implementations).
C22_FracPowDispatch ==
  /\ (op = "FracPower" /\ args[2] >= 1) =>
        DispatchedAsClaimed(args[1], args[2], out,
          IntPower(ReducedPair(args[1], args[2])[1],
                   RootOfX(ReducedPair(args[1], args[2])[2], out)))
  /\ (op = "FracPowerFP" /\ args[2] >= 1) =>
        DispatchedAsClaimed(args[1], args[2], out,
          IntPowerFP(ReducedPair(args[1], args[2])[1],
                     RootOfX(ReducedPair(args[1], args[2])[2], out)))

\* (M1, N1) is the normal form of M / N.
NormalForm(M, N, M1, N1) ==
  /\ N1 > 0
  /\ \A k \in 2 .. MaxDen : ~(M1 % k = 0 /\ N1 % k = 0)
  /\ M1 * N = M * N1
  /\ M = 0 => (M1 = 0 /\ N1 = 1)

\* C23: for every integer M and non-zero N the normalised pair (M1, N1) has
\* N1 > 0, gcd(|M1|, N1) = 1 and M1 * N = M * N1, and is (0, 1) for M = 0;
\* so exponents denoting the same rational take the same computation path in
\* FracPow, as (2,4) and (1,2) do.
C23_NormalisedFrac ==
  /\ ((op = "NormaliseFrac" \/ op = "NormaliseNumerDenom") /\ args[2] # 0) =>
        /\ out.err = ""
        /\ NormalForm(args[1], args[2], out.val[1], out.val[2])
  /\ (op = "FracPower" /\ args[2] >= 1) =>
        \A M \in -MaxPow .. MaxPow, N \in 1 .. MaxDen :
          M * args[2] = args[1] * N => FracPower(M, N, PwX) = out
  /\ (op = "FracPowerFP" /\ args[2] >= 1) =>
        \A M \in -MaxPow .. MaxPow, N \in 1 .. MaxDen :
          M * args[2] = args[1] * N => FracPowerFP(M, N, PwX) = out

C23_Witness ==
  /\ op = "NormaliseFrac"
  /\ args = <<4, -6>>
  /\ out = Ok(<<-2, 3>>)

\* The reduced form of m / n, n > 0.
ReducedForm(m, n) == <<m \div GCD(m, n), n \div GCD(m, n)>>

\* Field d of the exponent vector res is the residue of q * M / N, where q is
\* the rational that field d of E decodes to, and decodes to its reduced form
\* when that is of height at most maxH.
RPowField(E, M, N, res, d, maxH) ==
  LET q == GetNumerAndDenom(FieldAt(E, d, PBits))
      m == q.val[1] * M
      n == q.val[2] * N
      r == ReducedForm(m, n)
  IN  q.err = "" =>
        /\ FieldAt(res, d, PBits) = Encode(m, n)
        /\ Abs(r[1]) + r[2] <= maxH =>
             GetNumerAndDenom(FieldAt(res, d, PBits)) = Ok(r)

\* C24: for E whose field d decodes to q_d, every integer M and every N > 0
\* not a multiple of P, field d of DivExp(MultExp(E,M),N), the exponent
\* vector of RPow<M,N>, is the residue of q_d * M / N and decodes to its
\* reduced form whenever the height of that is within MaxHeight.
C24_RPowExponents ==
  (op = "DimQRPow" /\ args[2] > 0 /\ args[2] % PMod # 0) =>
    /\ out.err = ""
    /\ \A d \in {0, 1, NDims - 1} :
         RPowField(args[3].E, args[1], args[2], out.val.E, d, MaxHeight)

\* As C24, for the heights below MaxHeight.
C24_BelowMaxHeight ==
  (op = "DimQRPow" /\ args[2] > 0 /\ args[2] % PMod # 0) =>
    /\ out.err = ""
    /\ \A d \in {0, 1, NDims - 1} :
         RPowField(args[3].E, args[1], args[2], out.val.E, d, MaxHeight - 1)

\* The fraction r to the power k >= 0, numerator and denominator apart.
PowerOf(r, k) == <<r[1] ^ k, r[2] ^ k>>

\* The magnitude val is the magnitude a_m times ratio to the power num / den.
ScaledExactly(val, a_m, ratio, num, den) ==
  IF den = 1
  THEN LET p == IF num >= 0 THEN PowerOf(ratio, num)
                ELSE PowerOf(<<ratio[2], ratio[1]>>, -num)
       IN  val[1] * a_m[2] * p[2] = a_m[1] * p[1] * val[2]
  ELSE /\ val.m = a_m
       /\ val.base[1] * ratio[2] = ratio[1] * val.base[2]
       /\ val.pw.exp = <<num, den>>

\* The exponents a field stands for: the reduced rationals of height at most
\* MaxHeight whose residue it is (0 for the field 0).
ExponentsOf(f) ==
  IF f = 0 THEN {<<0, 1>>}
  ELSE {p \in ReducedUpTo(MaxHeight) : Encode(p[1], p[2]) = f}

\* The type of a conversion's result: E unchanged, U unchanged outside Dim and
\* the target unit in Dim, and the conversion back restores U.
ConvertedType(Dim, New, q, res) ==
  /\ res.E = q.E
  /\ \A d \in 0 .. (NDims - 1) :
       FieldAt(res.U, d, PBits) = IF d = Dim THEN New ELSE FieldAt(q.U, d, PBits)
  /\ \A i \in BitIdx : i >= NDims * PBits => res.U[i] = q.U[i]
  /\ SetUnit(res.U, Dim, FieldAt(q.U, Dim, PBits)) = q.U

\* C25: To_<Dim>_<Unit> applied to (E,U) returns a quantity with E unchanged,
\* U unchanged outside Dim and the target unit in Dim; the magnitude is scaled
\* by (OldScale/NewScale) to exactly the power Numer/Denom that field Dim of E
\* stands for, so it is unchanged when that exponent is 0; converting back to
\* the old unit restores the unit vector.
C25_Conversion ==
  (op = "To_Dim_Unit" \/ op = "To_Dim") =>
    LET Dim   == args[1]
        New   == args[2]
        q     == args[3]
        Old   == FieldAt(q.U, Dim, PBits)
        ratio == <<UnitScale(Dim, Old)[1] * UnitScale(Dim, New)[2],
                   UnitScale(Dim, Old)[2] * UnitScale(Dim, New)[1]>>
    IN  \A numDen \in ExponentsOf(FieldAt(q.E, Dim, PBits)) :
          /\ out.err = ""
          /\ ConvertedType(Dim, New, q, out.val)
          /\ ScaledExactly(out.val.val, q.val, ratio, numDen[1], numDen[2])
          /\ numDen[1] = 0 => out.val.val = q.val

\* The part of C25 about the type, for the conversions that compile.
C25_ConvertedType ==
  ((op = "To_Dim_Unit" \/ op = "To_Dim") /\ out.err = "") =>
    ConvertedType(args[1], args[2], args[3], out.val)

\* The part of C25 about the magnitude, for the exponents that are not
\* negative integers and whose conversion compiles.
C25_ScaledUnlessNegativeInteger ==
  ((op = "To_Dim_Unit" \/ op = "To_Dim") /\ out.err = "") =>
    LET Dim   == args[1]
        q     == args[3]
        Old   == FieldAt(q.U, Dim, PBits)
        ratio == <<UnitScale(Dim, Old)[1] * UnitScale(Dim, args[2])[2],
                   UnitScale(Dim, Old)[2] * UnitScale(Dim, args[2])[1]>>
    IN  \A numDen \in ExponentsOf(FieldAt(q.E, Dim, PBits)) :
          ~(numDen[1] < 0 /\ numDen[2] = 1) =>
            /\ ScaledExactly(out.val.val, q.val, ratio, numDen[1], numDen[2])
            /\ numDen[1] = 0 => out.val.val = q.val

\* v & PMask
Masked(v) == v % (PMask + 1)

\* C26: GetFld(PutFld(v,d),d') is v & PMask for d' = d and 0 otherwise;
\* GetFld(SetUnit(U,d,v),d') is v & PMask for d' = d and GetFld(U,d')
\* otherwise; DimExp(d) has 1 in field d and 0 elsewhere; MkUnit(d,v) has
\* v & PMask in field d and 0 elsewhere.
C26_Packing ==
  \A d1 \in 0 .. (NDims - 1) :
    /\ op = "PutFld" =>
         /\ GetFld(out.val, d1) = IF d1 = args[2] THEN Masked(args[1]) ELSE 0
         /\ GetFld(out.val, d1) = FieldAt(out.val, d1, PBits)
    /\ op = "SetUnit" =>
         /\ GetFld(out.val, d1)
              = IF d1 = args[2] THEN Masked(args[3]) ELSE FieldAt(args[1], d1, PBits)
         /\ GetFld(out.val, d1) = FieldAt(out.val, d1, PBits)
    /\ op = "DimExp" =>
         /\ GetFld(out.val, d1) = IF d1 = args[1] THEN 1 ELSE 0
         /\ GetFld(out.val, d1) = FieldAt(out.val, d1, PBits)
    /\ op = "MkUnit" =>
         /\ GetFld(out.val, d1) = IF d1 = args[1] THEN Masked(args[2]) ELSE 0
         /\ GetFld(out.val, d1) = FieldAt(out.val, d1, PBits)

C26_Witness ==
  /\ op = "SetUnit"
  /\ args[1] = AllOnes
  /\ args[2] = 3
  /\ args[3] = PMask + 1 + MaxUnit
  /\ GetFld(out.val, 3) = MaxUnit
  /\ GetFld(out.val, 2) = PMask
  /\ GetFld(out.val, 4) = PMask

\* Every field of the vector w is a residue and no bit lies above the fields.
ValidResidues(w) ==
  /\ \A d \in 0 .. (NDims - 1) : FieldAt(w, d, PBits) \in 0 .. (PMod - 1)
  /\ \A i \in BitIdx : i >= NDims * PBits => w[i] = 0

\* C27: every exponent vector formed from 0 and the atoms DimExp(d) by
\* AddExp, SubExp, MultExp(.,m) and DivExp(.,n), n not a multiple of PMod,
\* has every field in 0 .. PMod-1 and no bit above the N fields.
C27_ValidResidues ==
  /\ ValidResidues(args[1])
  /\ ValidResidues(args[2])
  /\ out.err = "" => ValidResidues(out.val)

C27_Witness ==
  /\ op = "DivExp"
  /\ out.err = ""
  /\ args[3] >= 2
  /\ FieldAt(args[1], 0, PBits) = (PMod - 1) \div 2

\* The unit of every dimension of exponent 0 is 0.
CanonicalUnits(q) == q.U = CleanUpUnits(q.E, q.U)

\* C28: every quantity type formed from the declared types by *, /,
\* scalar/quantity, IPow, Sqr, Cube, RPow, SqRt, CbRt and To_<Dim>_<Unit>
\* has U = CleanUpUnits(E,U).
C28_CanonicalUnits ==
  /\ CanonicalUnits(args[1])
  /\ CanonicalUnits(args[2])

\* The types formed without a conversion in a dimension of exponent 0 have
\* canonical units.
C28_CanonicalUnlessConverted ==
  ~args[4] => (CanonicalUnits(args[1]) /\ CanonicalUnits(args[2]))

\* The states of InverseModP's loop from the state s on: s itself and the
\* state after every iteration, at most fuel of them.
RECURSIVE InvStates(_, _)
InvStates(s, fuel) ==
  IF s.x = 0 \/ fuel = 0 THEN <<s>>
  ELSE <<s>> \o InvStates(InvStep(s), fuel - 1)

InvEntry(n) == [x |-> Normalise(n), a |-> 1, b |-> 0, y |-> IPMod, c |-> 0, d |-> 1]

LogicErrors ==
  {"DimTypes::Bits::InverseModP: LOGIC ERROR (1)",
   "DimTypes::Bits::InverseModP: LOGIC ERROR (2)",
   "DimTypes::Bits::InverseModP: ERROR: UnInvertible arg",
   "DimTypes::Bits::FindMaxHeight: LOGIC ERROR",
   "DimTypes::Bits::GetNumerAndDenom: LOGIC ERROR"}

\* C29: InverseModP(n), n not a multiple of P, terminates with 0 <= x < y at
\* entry and after every iteration, x decreasing to 0 and y ending at 1; in
\* FindMaxHeight and GetNumerAndDenom numerP > 0 and numerC > 0 for every
\* enumerated (height, denom), InverseModP is not called on a multiple of P,
\* no LOGIC ERROR is thrown, and FindMaxHeight returns from inside its loop.
C29_NoLogicError ==
  /\ (op = "InverseModP" /\ CRem(args[1], IPMod) # 0) =>
        LET t == InvStates(InvEntry(args[1]), IPMod)
        IN  /\ out.err = ""
            /\ \A i \in 1 .. Len(t) : 0 <= t[i].x /\ t[i].x < t[i].y
            /\ \A i \in 2 .. Len(t) : t[i].x < t[i - 1].x
            /\ t[Len(t)].x = 0
            /\ t[Len(t)].y = 1
  /\ fmh.pc \in {"loop", "done"}
  /\ fmh.err = ""
  /\ fmh.pc = "loop" =>
        /\ fmh.height - fmh.denom > 0
        /\ IPMod - (fmh.height - fmh.denom) > 0
        /\ CRem(fmh.denom, IPMod) # 0
  /\ fmh.pc = "done" =>
        /\ fmh.height < IPMod
        /\ fmh.denom < fmh.height
        /\ fmh.result = fmh.height - 1
  /\ op = "GetNumerAndDenom" =>
        /\ out.err \notin LogicErrors
        /\ \A height \in 2 .. (MaxHeight - 1) : \A denom \in 1 .. (height - 1) :
             /\ height - denom > 0
             /\ IPMod - (height - denom) > 0
             /\ CRem(denom, IPMod) # 0

C29_Witness ==
  /\ fmh.pc = "done"
  /\ fmh.result = fmh.height - 1
  /\ op = "InverseModP"
  /\ args[1] = -(PMod + 7)
  /\ Len(InvStates(InvEntry(args[1]), IPMod)) > 3
  /\ out.err = ""

\* The pair p is enumerated before the pair q by the search: lower height
\* first, then lower denominator, then the positive numerator.
SearchedBefore(p, q) ==
  LET hp == Abs(p[1]) + p[2]
      hq == Abs(q[1]) + q[2]
  IN  \/ hp < hq
      \/ hp = hq /\ p[2] < q[2]
      \/ hp = hq /\ p[2] = q[2] /\ p[1] > q[1]

\* The decoder that skips the pairs with gcd # 1: the first reduced pair of
\* height 2 .. MaxHeight-1 in the order of the search whose residue is r.
SkippingDecoder(r) ==
  IF r = 0 THEN Ok(<<0, 1>>)
  ELSE LET cands == {p \in PairsBelow(MaxHeight) :
                       GCD(Abs(p[1]), p[2]) = 1 /\ Encode(p[1], p[2]) = r}
       IN  IF cands = {} THEN Throw(RepNotMatched)
           ELSE Ok(CHOOSE p \in cands : \A q \in cands : q = p \/ SearchedBefore(p, q))

\* C30: GetNumerAndDenom, which has no gcd test, returns only pairs (m,n)
\* with n >= 1, gcd(|m|,n) = 1 and residue r, and its outcome on every r is
\* that of the same search with the pairs of gcd # 1 skipped.
C30_AsGcdSkipping ==
  op = "GetNumerAndDenom" =>
    /\ out.err = "" =>
         /\ out.val[2] >= 1
         /\ GCD(Abs(out.val[1]), out.val[2]) = 1
         /\ Encode(out.val[1], out.val[2]) = args[1]
    /\ out = SkippingDecoder(args[1])

C30_Witness ==
  /\ op = "GetNumerAndDenom"
  /\ args[1] = Encode(2, 4)
  /\ out = Ok(<<1, 2>>)

====
